---- MODULE Spec2Model ----
(***************************************************************************)
(* Model of the prompt-injection filter (prompt_security.py) and of the    *)
(* secure MCP server that calls it (secure_elevenlabs_mcp.py).             *)
(*                                                                         *)
(* A Python value is a tagged record: Str(s) carries the string as a       *)
(* sequence of characters, NoneV is None, IntV(i) an int.  A character is a *)
(* one-character TLA+ string; the non-printable ones carry the name of     *)
(* their code point ("x07" is U+0007).  The character classes below list   *)
(* the members of each Python class among the modelled characters.         *)
(***************************************************************************)
EXTENDS Integers, Sequences, FiniteSets, TLC

VARIABLES
    detector,      \* the module-level PromptInjectionDetector (its three catalogs)
    pc,            \* "idle": no call in progress; "done": a call has returned
    op,            \* the operation that returned last
    in_text,       \* argument text of the last detector call
    in_context,    \* argument context of the last detector call
    in_max,        \* argument max_length of the last sanitize_input call
    out_threats,   \* findings returned by analyze_input / is_safe_input
    out_allowed,   \* verdict returned by is_safe_input
    out_text,      \* string returned by sanitize_input
    out_text2,     \* sanitize_input applied to out_text with the same max_length
    in_call_data,  \* argument of the last validate_call_data call
    validation,    \* what validate_call_data returned, with the detector calls it made
    server,        \* the module-level SecureMCPServer (its configuration)
    http_request,  \* the HTTP request the secure server handled last
    http_response, \* the HTTP response it produced
    log_result,    \* what _log_call_secure did: checks passed, text returned or raised
    crm_requests,  \* create_event requests sent to the CRM while handling the request
    clients,       \* FollowUpBossClient objects created while handling it: open or closed
    discord_tasks, \* notifications scheduled with asyncio.create_task while handling it
    frames         \* per caller, the frame of its detector call in progress: arguments and locals

vars == <<detector, pc, op, in_text, in_context, in_max, out_threats, out_allowed,
          out_text, out_text2, in_call_data, validation, server, http_request,
          http_response, log_result, crm_requests, clients, discord_tasks, frames>>

detector_vars == <<in_text, in_context, in_max, out_threats, out_allowed,
                   out_text, out_text2, in_call_data, validation>>

server_vars == <<http_request, http_response, log_result, crm_requests, clients, discord_tasks>>

----------------------------------------------------------------------------
(* Python values *)

Str(s) == [t |-> "str", s |-> s]
IntV(i) == [t |-> "int", i |-> i]
NoneV == [t |-> "none"]
\* the marker of a key that a dict does not have
Absent == [t |-> "absent"]
IsStr(v) == v.t = "str"
IsInt(v) == v.t = "int"

\* Python truth value of v ("not v" is ~Truthy(v))
Truthy(v) ==
    CASE v.t = "str" -> v.s # <<>>
      [] v.t = "int" -> v.i # 0
      [] v.t = "none" -> FALSE
      [] v.t = "dict" -> DOMAIN v.d # {}
      [] OTHER -> TRUE

EmptyDict == [k \in {} |-> NoneV]

\* dict.get(key, default)
Get(d, key, default) == IF key \in DOMAIN d THEN d[key] ELSE default

Min(a, b) == IF a <= b THEN a ELSE b
Max(a, b) == IF a >= b THEN a ELSE b

----------------------------------------------------------------------------
(* Characters and the character classes of Python's re and str *)

LowerCase == <<"a", "b", "c", "d", "e", "f", "g", "h", "i", "j", "k", "l", "m",
               "n", "o", "p", "q", "r", "s", "t", "u", "v", "w", "x", "y", "z">>
UpperCase == <<"A", "B", "C", "D", "E", "F", "G", "H", "I", "J", "K", "L", "M",
               "N", "O", "P", "Q", "R", "S", "T", "U", "V", "W", "X", "Y", "Z">>
LowerSet == {LowerCase[n] : n \in 1..26}
UpperSet == {UpperCase[n] : n \in 1..26}

ToLower(c) == IF c \in UpperSet THEN LowerCase[CHOOSE n \in 1..26 : UpperCase[n] = c] ELSE c
ToUpper(c) == IF c \in LowerSet THEN UpperCase[CHOOSE n \in 1..26 : LowerCase[n] = c] ELSE c
\* the characters a literal c matches under the flag (?i)
Fold(c) == {c, ToLower(c), ToUpper(c)}

Digit == {"0", "1", "2", "3", "4", "5", "6", "7", "8", "9"}

\* \s of a str pattern, and the characters str.strip() removes
Whitespace == {" ", "\t", "\n", "\r", "x0b", "x0c", "x1c", "x1d", "x1e", "x1f", "x85", "xa0"}

\* [\x00-\x08\x0b\x0c\x0e-\x1f\x7f-\x9f]
ControlChars == {"x00", "x07", "x08", "x0b", "x0c", "x0e", "x1b", "x1c", "x1d", "x1e",
                 "x1f", "x7f", "x85", "x9f"}

\* [<>{}()[\]x60], x60 being the backtick
BracketChars == {"<", ">", "{", "}", "(", ")", "[", "]", "x60"}

\* [!@#$%^&*]
PunctChars == {"!", "@", "#", "$", "%", "^", "&", "*"}

----------------------------------------------------------------------------
(* Regular expressions: syntax trees and the backtracking matcher of re *)

\* the upper limit of + and * and {n,}: no limit (MAXREPEAT of re, here the largest integer)
MAXREPEAT == 2147483647

Ch(cs) == [k |-> "set", cs |-> cs]
ChI(cs) == [k |-> "set", cs |-> UNION {Fold(c) : c \in cs}]
AnyChar == [k |-> "any"]
Cat(rs) == [k |-> "cat", rs |-> rs]
Alt(rs) == [k |-> "alt", rs |-> rs]
Rep(r, lo, hi) == [k |-> "rep", r |-> r, lo |-> lo, hi |-> hi]
\* a run of literal characters; under (?i) each matches both of its cases
\* ^ and $ without re.MULTILINE, and \b
BeginOfString == [k |-> "bos"]
EndOfString == [k |-> "eos"]
WordBoundary == [k |-> "wb"]
Lit(w) == [k |-> "lit", cs |-> [n \in 1..Len(w) |-> {w[n]}]]
\* a literal of a pattern whose flag (?i) is left out
LitI_case_sensitive(w) == [k |-> "lit", cs |-> [n \in 1..Len(w) |-> {w[n]}]]
LitI(w) == [k |-> "lit", cs |-> [n \in 1..Len(w) |-> Fold(w[n])]]

\* \w
WordChars == LowerSet \cup UpperSet \cup Digit \cup {"_"}
IsWordAt(s, i) == i >= 1 /\ i <= Len(s) /\ s[i] \in WordChars

RECURSIVE Ends(_, _, _)
RECURSIVE SeqEnds(_, _, _, _)
RECURSIVE CatFrom(_, _, _, _)
RECURSIVE AltEnds(_, _, _, _)
RECURSIVE RepEnds(_, _, _, _, _)
RECURSIVE RepFrom(_, _, _, _, _)

\* The positions at which a match of r that starts at position i of s can
\* end, in the order in which the backtracking matcher tries them (first
\* alternative first, greedy repetition longest first).  The head is the
\* end of the match that re reports.
Ends(r, s, i) ==
    CASE r.k = "set" -> IF i <= Len(s) /\ s[i] \in r.cs THEN <<i + 1>> ELSE <<>>
      [] r.k = "any" -> IF i <= Len(s) /\ s[i] # "\n" THEN <<i + 1>> ELSE <<>>
      [] r.k = "lit" -> IF /\ i + Len(r.cs) - 1 <= Len(s)
                           /\ \A n \in 1..Len(r.cs) : s[i + n - 1] \in r.cs[n]
                        THEN <<i + Len(r.cs)>> ELSE <<>>
      [] r.k = "bos" -> IF i = 1 THEN <<i>> ELSE <<>>
      [] r.k = "eos" -> IF i = Len(s) + 1 \/ (i = Len(s) /\ s[i] = "\n") THEN <<i>> ELSE <<>>
      [] r.k = "wb" -> IF IsWordAt(s, i - 1) # IsWordAt(s, i) THEN <<i>> ELSE <<>>
      [] r.k = "cat" -> SeqEnds(r.rs, 1, s, i)
      [] r.k = "alt" -> AltEnds(r.rs, 1, s, i)
      [] r.k = "rep" -> RepEnds(r.r, r.lo, r.hi, s, i)

SeqEnds(rs, n, s, i) ==
    IF n > Len(rs) THEN <<i>>
    ELSE CatFrom(Ends(rs[n], s, i), rs, n + 1, s)

CatFrom(js, rs, n, s) ==
    IF js = <<>> THEN <<>>
    ELSE SeqEnds(rs, n, s, Head(js)) \o CatFrom(Tail(js), rs, n, s)

AltEnds(rs, n, s, i) ==
    IF n > Len(rs) THEN <<>>
    ELSE Ends(rs[n], s, i) \o AltEnds(rs, n + 1, s, i)

RepEnds(r, lo, hi, s, i) ==
    IF hi = 0 THEN <<i>>
    ELSE RepFrom(SelectSeq(Ends(r, s, i), LAMBDA j : j > i), r, Max(lo - 1, 0), hi - 1, s)
         \o (IF lo = 0 THEN <<i>> ELSE <<>>)

RepFrom(js, r, lo, hi, s) ==
    IF js = <<>> THEN <<>>
    ELSE RepEnds(r, lo, hi, s, Head(js)) \o RepFrom(Tail(js), r, lo, hi, s)

\* re.finditer(r, s): the non-overlapping matches from left to right, each
\* as [start, end) positions; the scan resumes where the last match ended.
RECURSIVE FindFrom(_, _, _)
FindFrom(r, s, pos) ==
    LET starts == {i \in pos..(Len(s) + 1) : Ends(r, s, i) # <<>>}
    IN  IF starts = {} THEN <<>>
        ELSE LET a == CHOOSE i \in starts : \A j \in starts : i <= j
                 b == Head(Ends(r, s, a))
             IN  <<[start |-> a, end |-> b]>>
                 \o FindFrom(r, s, IF b > a THEN b ELSE a + 1)

finditer(r, s) == FindFrom(r, s, 1)

\* re.match(r, s) is not None
match(r, s) == Ends(r, s, 1) # <<>>

\* match.group()
group(s, m) == SubSeq(s, m.start, m.end - 1)

\* re.sub(r, repl, s)
RECURSIVE SubFrom(_, _, _, _)
SubFrom(ms, repl, s, pos) ==
    IF ms = <<>> THEN SubSeq(s, pos, Len(s))
    ELSE SubSeq(s, pos, Head(ms).start - 1) \o repl \o SubFrom(Tail(ms), repl, s, Head(ms).end)

sub(r, repl, s) == SubFrom(finditer(r, s), repl, s, 1)

\* s[:n]
SliceTo(s, n) ==
    IF n >= 0 THEN SubSeq(s, 1, Min(n, Len(s)))
    ELSE SubSeq(s, 1, Max(Len(s) + n, 0))

\* s.strip(): s without its leading and trailing whitespace
strip(s) ==
    LET lead == Cardinality({i \in 1..Len(s) : \A j \in 1..i : s[j] \in Whitespace})
        trail == Cardinality({i \in 1..Len(s) : \A j \in i..Len(s) : s[j] \in Whitespace})
    IN  IF lead = Len(s) THEN <<>> ELSE SubSeq(s, lead + 1, Len(s) - trail)

----------------------------------------------------------------------------
(* PromptInjectionDetector.__init__: the three catalogs *)

high_risk_patterns_0 ==
    <<
     \* 1: (?i)(ignore|forget|disregard).{0,50}(previous|above|prior|earlier).{0,50}(instruction|prompt|rule|command)
     Cat(<<Alt(<<LitI(<<"i", "g", "n", "o", "r", "e">>), LitI(<<"f", "o", "r", "g", "e", "t">>),
     LitI(<<"d", "i", "s", "r", "e", "g", "a", "r", "d">>)>>), Rep(AnyChar, 0, 50),
     Alt(<<LitI(<<"p", "r", "e", "v", "i", "o", "u", "s">>), LitI(<<"a", "b", "o", "v", "e">>),
     LitI(<<"p", "r", "i", "o", "r">>), LitI(<<"e", "a", "r", "l", "i", "e", "r">>)>>),
     Rep(AnyChar, 0, 50), Alt(<<LitI(<<"i", "n", "s", "t", "r", "u", "c", "t", "i", "o", "n">>),
     LitI(<<"p", "r", "o", "m", "p", "t">>), LitI(<<"r", "u", "l", "e">>), LitI(<<"c", "o", "m",
     "m", "a", "n", "d">>)>>)>>),
     \* 2: (?i)(system|assistant|ai|bot).{0,20}(now|please|must|should).{0,20}(ignore|forget|respond|answer)
     Cat(<<Alt(<<LitI(<<"s", "y", "s", "t", "e", "m">>), LitI(<<"a", "s", "s", "i", "s", "t",
     "a", "n", "t">>), LitI(<<"a", "i">>), LitI(<<"b", "o", "t">>)>>), Rep(AnyChar, 0, 20),
     Alt(<<LitI(<<"n", "o", "w">>), LitI(<<"p", "l", "e", "a", "s", "e">>), LitI(<<"m", "u", "s",
     "t">>), LitI(<<"s", "h", "o", "u", "l", "d">>)>>), Rep(AnyChar, 0, 20), Alt(<<LitI(<<"i",
     "g", "n", "o", "r", "e">>), LitI(<<"f", "o", "r", "g", "e", "t">>), LitI(<<"r", "e", "s",
     "p", "o", "n", "d">>), LitI(<<"a", "n", "s", "w", "e", "r">>)>>)>>),
     \* 3: (?i)act\s+as\s+(a\s+)?(different|new|another|other)
     Cat(<<LitI(<<"a", "c", "t">>), Rep(ChI(Whitespace), 1, MAXREPEAT), LitI(<<"a", "s">>),
     Rep(ChI(Whitespace), 1, MAXREPEAT), Rep(Cat(<<LitI(<<"a">>), Rep(ChI(Whitespace), 1,
     MAXREPEAT)>>), 0, 1), Alt(<<LitI(<<"d", "i", "f", "f", "e", "r", "e", "n", "t">>),
     LitI(<<"n", "e", "w">>), LitI(<<"a", "n", "o", "t", "h", "e", "r">>), LitI(<<"o", "t", "h",
     "e", "r">>)>>)>>),
     \* 4: (?i)(you\s+are|you're)\s+(now|actually|really)\s+(a|an)
     Cat(<<Cat(<<LitI(<<"y", "o", "u">>), Alt(<<Cat(<<Rep(ChI(Whitespace), 1, MAXREPEAT),
     LitI(<<"a", "r", "e">>)>>), LitI(<<"'", "r", "e">>)>>)>>), Rep(ChI(Whitespace), 1,
     MAXREPEAT), Alt(<<LitI(<<"n", "o", "w">>), LitI(<<"a", "c", "t", "u", "a", "l", "l", "y">>),
     LitI(<<"r", "e", "a", "l", "l", "y">>)>>), Rep(ChI(Whitespace), 1, MAXREPEAT),
     Cat(<<LitI(<<"a">>), Alt(<<Cat(<<>>), LitI(<<"n">>)>>)>>)>>),
     \* 5: (?i)(new|different|updated|changed)\s+(instructions|rules|guidelines|prompt)
     Cat(<<Alt(<<LitI(<<"n", "e", "w">>), LitI(<<"d", "i", "f", "f", "e", "r", "e", "n", "t">>),
     LitI(<<"u", "p", "d", "a", "t", "e", "d">>), LitI(<<"c", "h", "a", "n", "g", "e", "d">>)>>),
     Rep(ChI(Whitespace), 1, MAXREPEAT), Alt(<<LitI(<<"i", "n", "s", "t", "r", "u", "c", "t",
     "i", "o", "n", "s">>), LitI(<<"r", "u", "l", "e", "s">>), LitI(<<"g", "u", "i", "d", "e",
     "l", "i", "n", "e", "s">>), LitI(<<"p", "r", "o", "m", "p", "t">>)>>)>>),
     \* 6: (?i)(assume|pretend|roleplay|act\s+like|behave\s+as)\s+(you\s+are|you're)
     Cat(<<Alt(<<LitI(<<"a", "s", "s", "u", "m", "e">>), LitI(<<"p", "r", "e", "t", "e", "n",
     "d">>), LitI(<<"r", "o", "l", "e", "p", "l", "a", "y">>), Cat(<<LitI(<<"a", "c", "t">>),
     Rep(ChI(Whitespace), 1, MAXREPEAT), LitI(<<"l", "i", "k", "e">>)>>), Cat(<<LitI(<<"b", "e",
     "h", "a", "v", "e">>), Rep(ChI(Whitespace), 1, MAXREPEAT), LitI(<<"a", "s">>)>>)>>),
     Rep(ChI(Whitespace), 1, MAXREPEAT), Cat(<<LitI(<<"y", "o", "u">>),
     Alt(<<Cat(<<Rep(ChI(Whitespace), 1, MAXREPEAT), LitI(<<"a", "r", "e">>)>>), LitI(<<"'", "r",
     "e">>)>>)>>)>>),
     \* 7: (?i)(developer|admin|root|system)\s+(mode|access|override|bypass)
     Cat(<<Alt(<<LitI(<<"d", "e", "v", "e", "l", "o", "p", "e", "r">>), LitI(<<"a", "d", "m",
     "i", "n">>), LitI(<<"r", "o", "o", "t">>), LitI(<<"s", "y", "s", "t", "e", "m">>)>>),
     Rep(ChI(Whitespace), 1, MAXREPEAT), Alt(<<LitI(<<"m", "o", "d", "e">>), LitI(<<"a", "c",
     "c", "e", "s", "s">>), LitI(<<"o", "v", "e", "r", "r", "i", "d", "e">>), LitI(<<"b", "y",
     "p", "a", "s", "s">>)>>)>>),
     \* 8: (?i)(jailbreak|break\s+out|escape|override|bypass)
     Alt(<<LitI(<<"j", "a", "i", "l", "b", "r", "e", "a", "k">>), Cat(<<LitI(<<"b", "r", "e",
     "a", "k">>), Rep(ChI(Whitespace), 1, MAXREPEAT), LitI(<<"o", "u", "t">>)>>), LitI(<<"e",
     "s", "c", "a", "p", "e">>), LitI(<<"o", "v", "e", "r", "r", "i", "d", "e">>), LitI(<<"b",
     "y", "p", "a", "s", "s">>)>>),
     \* 9: (?i)(show|reveal|display|tell\s+me)\s+(your|the)\s+(prompt|instructions|rules|guidelines)
     Cat(<<Alt(<<LitI(<<"s", "h", "o", "w">>), LitI(<<"r", "e", "v", "e", "a", "l">>),
     LitI(<<"d", "i", "s", "p", "l", "a", "y">>), Cat(<<LitI(<<"t", "e", "l", "l">>),
     Rep(ChI(Whitespace), 1, MAXREPEAT), LitI(<<"m", "e">>)>>)>>), Rep(ChI(Whitespace), 1,
     MAXREPEAT), Alt(<<LitI(<<"y", "o", "u", "r">>), LitI(<<"t", "h", "e">>)>>),
     Rep(ChI(Whitespace), 1, MAXREPEAT), Alt(<<LitI(<<"p", "r", "o", "m", "p", "t">>),
     LitI(<<"i", "n", "s", "t", "r", "u", "c", "t", "i", "o", "n", "s">>), LitI(<<"r", "u", "l",
     "e", "s">>), LitI(<<"g", "u", "i", "d", "e", "l", "i", "n", "e", "s">>)>>)>>),
     \* 10: (?i)(what\s+are|show\s+me)\s+(your|the)\s+(original|initial|system)\s+(prompt|instructions)
     Cat(<<Alt(<<Cat(<<LitI(<<"w", "h", "a", "t">>), Rep(ChI(Whitespace), 1, MAXREPEAT),
     LitI(<<"a", "r", "e">>)>>), Cat(<<LitI(<<"s", "h", "o", "w">>), Rep(ChI(Whitespace), 1,
     MAXREPEAT), LitI(<<"m", "e">>)>>)>>), Rep(ChI(Whitespace), 1, MAXREPEAT), Alt(<<LitI(<<"y",
     "o", "u", "r">>), LitI(<<"t", "h", "e">>)>>), Rep(ChI(Whitespace), 1, MAXREPEAT),
     Alt(<<LitI(<<"o", "r", "i", "g", "i", "n", "a", "l">>), LitI(<<"i", "n", "i", "t", "i", "a",
     "l">>), LitI(<<"s", "y", "s", "t", "e", "m">>)>>), Rep(ChI(Whitespace), 1, MAXREPEAT),
     Alt(<<LitI(<<"p", "r", "o", "m", "p", "t">>), LitI(<<"i", "n", "s", "t", "r", "u", "c", "t",
     "i", "o", "n", "s">>)>>)>>),
     \* 11: (?i)print\s*\(\s*[\"'].*system.*[\"']\s*\)
     Cat(<<LitI(<<"p", "r", "i", "n", "t">>), Rep(ChI(Whitespace), 0, MAXREPEAT), LitI(<<"(">>),
     Rep(ChI(Whitespace), 0, MAXREPEAT), ChI({"\"", "'"}), Rep(AnyChar, 0, MAXREPEAT),
     LitI(<<"s", "y", "s", "t", "e", "m">>), Rep(AnyChar, 0, MAXREPEAT), ChI({"\"", "'"}),
     Rep(ChI(Whitespace), 0, MAXREPEAT), LitI(<<")">>)>>),
     \* 12: (?i)(execute|run|eval|import|subprocess|os\.system)
     Alt(<<LitI(<<"e", "x", "e", "c", "u", "t", "e">>), LitI(<<"r", "u", "n">>), LitI(<<"e", "v",
     "a", "l">>), LitI(<<"i", "m", "p", "o", "r", "t">>), LitI(<<"s", "u", "b", "p", "r", "o",
     "c", "e", "s", "s">>), LitI(<<"o", "s", ".", "s", "y", "s", "t", "e", "m">>)>>),
     \* 13: (?i)(__|\$\{|<%|<\?|{{)
     Alt(<<LitI(<<"_", "_">>), LitI(<<"$", "{">>), LitI(<<"<", "%">>), LitI(<<"<", "?">>),
     LitI(<<"{", "{">>)>>),
     \* 14: (?i)(script|javascript|python|bash|shell|cmd)
     Alt(<<LitI(<<"s", "c", "r", "i", "p", "t">>), LitI(<<"j", "a", "v", "a", "s", "c", "r", "i",
     "p", "t">>), LitI(<<"p", "y", "t", "h", "o", "n">>), LitI(<<"b", "a", "s", "h">>),
     LitI(<<"s", "h", "e", "l", "l">>), LitI(<<"c", "m", "d">>)>>),
     \* 15: (?i)(api\s+key|secret|token|password|credential)
     Alt(<<Cat(<<LitI(<<"a", "p", "i">>), Rep(ChI(Whitespace), 1, MAXREPEAT), LitI(<<"k", "e",
     "y">>)>>), LitI(<<"s", "e", "c", "r", "e", "t">>), LitI(<<"t", "o", "k", "e", "n">>),
     LitI(<<"p", "a", "s", "s", "w", "o", "r", "d">>), LitI(<<"c", "r", "e", "d", "e", "n", "t",
     "i", "a", "l">>)>>),
     \* 16: (?i)(database|sql|query|select|insert|update|delete)
     Alt(<<LitI(<<"d", "a", "t", "a", "b", "a", "s", "e">>), LitI(<<"s", "q", "l">>), LitI(<<"q",
     "u", "e", "r", "y">>), LitI(<<"s", "e", "l", "e", "c", "t">>), LitI(<<"i", "n", "s", "e",
     "r", "t">>), LitI(<<"u", "p", "d", "a", "t", "e">>), LitI(<<"d", "e", "l", "e", "t",
     "e">>)>>),
     \* 17: (?i)(file|directory|path|folder|read|write|access)
     Alt(<<LitI(<<"f", "i", "l", "e">>), LitI(<<"d", "i", "r", "e", "c", "t", "o", "r", "y">>),
     LitI(<<"p", "a", "t", "h">>), LitI(<<"f", "o", "l", "d", "e", "r">>), LitI(<<"r", "e", "a",
     "d">>), LitI(<<"w", "r", "i", "t", "e">>), LitI(<<"a", "c", "c", "e", "s", "s">>)>>)
    >>

medium_risk_patterns_0 ==
    <<
     \* 1: (?i)(please|now|must|should)\s+(ignore|skip|bypass|override)
     Cat(<<Alt(<<LitI(<<"p", "l", "e", "a", "s", "e">>), LitI(<<"n", "o", "w">>), LitI(<<"m",
     "u", "s", "t">>), LitI(<<"s", "h", "o", "u", "l", "d">>)>>), Rep(ChI(Whitespace), 1,
     MAXREPEAT), Alt(<<LitI(<<"i", "g", "n", "o", "r", "e">>), LitI(<<"s", "k", "i", "p">>),
     LitI(<<"b", "y", "p", "a", "s", "s">>), LitI(<<"o", "v", "e", "r", "r", "i", "d",
     "e">>)>>)>>),
     \* 2: (?i)(instead|but|however|actually|really)\s+(ignore|disregard|forget)
     Cat(<<Alt(<<LitI(<<"i", "n", "s", "t", "e", "a", "d">>), LitI(<<"b", "u", "t">>),
     LitI(<<"h", "o", "w", "e", "v", "e", "r">>), LitI(<<"a", "c", "t", "u", "a", "l", "l",
     "y">>), LitI(<<"r", "e", "a", "l", "l", "y">>)>>), Rep(ChI(Whitespace), 1, MAXREPEAT),
     Alt(<<LitI(<<"i", "g", "n", "o", "r", "e">>), LitI(<<"d", "i", "s", "r", "e", "g", "a", "r",
     "d">>), LitI(<<"f", "o", "r", "g", "e", "t">>)>>)>>),
     \* 3: (?i)(tell|show|give)\s+me\s+(everything|all|any)
     Cat(<<Alt(<<LitI(<<"t", "e", "l", "l">>), LitI(<<"s", "h", "o", "w">>), LitI(<<"g", "i",
     "v", "e">>)>>), Rep(ChI(Whitespace), 1, MAXREPEAT), LitI(<<"m", "e">>), Rep(ChI(Whitespace),
     1, MAXREPEAT), Alt(<<LitI(<<"e", "v", "e", "r", "y", "t", "h", "i", "n", "g">>), LitI(<<"a",
     "l", "l">>), LitI(<<"a", "n", "y">>)>>)>>),
     \* 4: (?i)(hypothetical|imagine|suppose|what\s+if)\s+(you|I|we)\s+(could|can|were)
     Cat(<<Alt(<<LitI(<<"h", "y", "p", "o", "t", "h", "e", "t", "i", "c", "a", "l">>),
     LitI(<<"i", "m", "a", "g", "i", "n", "e">>), LitI(<<"s", "u", "p", "p", "o", "s", "e">>),
     Cat(<<LitI(<<"w", "h", "a", "t">>), Rep(ChI(Whitespace), 1, MAXREPEAT), LitI(<<"i",
     "f">>)>>)>>), Rep(ChI(Whitespace), 1, MAXREPEAT), Alt(<<LitI(<<"y", "o", "u">>),
     LitI(<<"I">>), LitI(<<"w", "e">>)>>), Rep(ChI(Whitespace), 1, MAXREPEAT), Alt(<<LitI(<<"c",
     "o", "u", "l", "d">>), LitI(<<"c", "a", "n">>), LitI(<<"w", "e", "r", "e">>)>>)>>),
     \* 5: [\[\]{}()<>].*[\[\]{}()<>]
     Cat(<<Ch({"[", "]", "{", "}", "(", ")", "<", ">"}), Rep(AnyChar, 0, MAXREPEAT), Ch({"[",
     "]", "{", "}", "(", ")", "<", ">"})>>),
     \* 6: [\"'`]{3,}
     Rep(Ch({"\"", "'", "x60"}), 3, MAXREPEAT),
     \* 7: [A-Z]{5,}
     Rep(Ch(UpperSet), 5, MAXREPEAT),
     \* 8: (?i)(admin|root|sudo|privilege|escalate|elevate)
     Alt(<<LitI(<<"a", "d", "m", "i", "n">>), LitI(<<"r", "o", "o", "t">>), LitI(<<"s", "u", "d",
     "o">>), LitI(<<"p", "r", "i", "v", "i", "l", "e", "g", "e">>), LitI(<<"e", "s", "c", "a",
     "l", "a", "t", "e">>), LitI(<<"e", "l", "e", "v", "a", "t", "e">>)>>),
     \* 9: (?i)(hack|crack|exploit|vulnerability|inject)
     Alt(<<LitI(<<"h", "a", "c", "k">>), LitI(<<"c", "r", "a", "c", "k">>), LitI(<<"e", "x", "p",
     "l", "o", "i", "t">>), LitI(<<"v", "u", "l", "n", "e", "r", "a", "b", "i", "l", "i", "t",
     "y">>), LitI(<<"i", "n", "j", "e", "c", "t">>)>>),
     \* 10: (?i)(malware|virus|trojan|backdoor|payload)
     Alt(<<LitI(<<"m", "a", "l", "w", "a", "r", "e">>), LitI(<<"v", "i", "r", "u", "s">>),
     LitI(<<"t", "r", "o", "j", "a", "n">>), LitI(<<"b", "a", "c", "k", "d", "o", "o", "r">>),
     LitI(<<"p", "a", "y", "l", "o", "a", "d">>)>>)
    >>

low_risk_patterns_0 ==
    <<
     \* 1: (?i)(test|testing|debug|debugging)
     Alt(<<LitI(<<"t", "e", "s", "t">>), LitI(<<"t", "e", "s", "t", "i", "n", "g">>), LitI(<<"d",
     "e", "b", "u", "g">>), LitI(<<"d", "e", "b", "u", "g", "g", "i", "n", "g">>)>>),
     \* 2: (?i)(example|sample|demo|demonstration)
     Alt(<<LitI(<<"e", "x", "a", "m", "p", "l", "e">>), LitI(<<"s", "a", "m", "p", "l", "e">>),
     LitI(<<"d", "e", "m", "o">>), LitI(<<"d", "e", "m", "o", "n", "s", "t", "r", "a", "t", "i",
     "o", "n">>)>>),
     \* 3: (?i)(help|assist|support|guidance)
     Alt(<<LitI(<<"h", "e", "l", "p">>), LitI(<<"a", "s", "s", "i", "s", "t">>), LitI(<<"s", "u",
     "p", "p", "o", "r", "t">>), LitI(<<"g", "u", "i", "d", "a", "n", "c", "e">>)>>)
    >>

\* PromptInjectionDetector(): the state of the global detector
NewDetector ==
    [high_risk_patterns |-> high_risk_patterns_0,
     medium_risk_patterns |-> medium_risk_patterns_0,
     low_risk_patterns |-> low_risk_patterns_0]

----------------------------------------------------------------------------
(* PromptInjectionDetector: analyze_input, sanitize_input, is_safe_input *)

SecurityThreat(severity, threat_type, description, matched_text) ==
    [severity |-> severity, threat_type |-> threat_type,
     description |-> description, matched_text |-> matched_text]

\* the findings of one rule: one per match, in match order
RuleThreats(pattern, s, severity, threat_type, description) ==
    LET matches == finditer(pattern, s)
    IN  [n \in 1..Len(matches) |->
            SecurityThreat(severity, threat_type, description, group(s, matches[n]))]

\* the findings of one catalog: rule after rule
RECURSIVE CatalogThreats(_, _, _, _, _, _)
CatalogThreats(patterns, n, s, severity, threat_type, description) ==
    IF n > Len(patterns) THEN <<>>
    ELSE RuleThreats(patterns[n], s, severity, threat_type, description)
         \o CatalogThreats(patterns, n + 1, s, severity, threat_type, description)

\* analyze_input that returns as soon as a catalog has produced findings
analyze_input_stops_early(self, text, context) ==
    IF ~Truthy(text) \/ ~IsStr(text) THEN <<>>
    ELSE LET high == CatalogThreats(self.high_risk_patterns, 1, text.s, "high",
                                    "prompt_injection",
                                    <<"Potential prompt injection detected in ", context>>)
             medium == CatalogThreats(self.medium_risk_patterns, 1, text.s, "medium",
                                      "suspicious_content",
                                      <<"Suspicious content detected in ", context>>)
         IN  IF high # <<>> THEN high
             ELSE IF medium # <<>> THEN medium
             ELSE CatalogThreats(self.low_risk_patterns, 1, text.s, "low",
                                 "potentially_suspicious",
                                 <<"Potentially suspicious content in ", context>>)

analyze_input(self, text, context) ==
    IF ~Truthy(text) \/ ~IsStr(text) THEN <<>>
    ELSE CatalogThreats(self.high_risk_patterns, 1, text.s, "high", "prompt_injection",
                        <<"Potential prompt injection detected in ", context>>)
         \o CatalogThreats(self.medium_risk_patterns, 1, text.s, "medium", "suspicious_content",
                           <<"Suspicious content detected in ", context>>)
         \o CatalogThreats(self.low_risk_patterns, 1, text.s, "low", "potentially_suspicious",
                           <<"Potentially suspicious content in ", context>>)

\* sanitize_input without the removal of the control characters
sanitize_input_keeps_controls(text, max_length) ==
    IF ~Truthy(text) \/ ~IsStr(text) THEN Str(<<>>)
    ELSE LET s1 == sub(Rep(Ch(Whitespace), 1, MAXREPEAT), <<" ">>, text.s)
             s3 == sub(Ch(BracketChars), <<>>, s1)
             s4 == sub(Rep(Ch(PunctChars), 3, MAXREPEAT), <<>>, s3)
             s5 == SliceTo(s4, max_length)
         IN  Str(strip(s5))

\* sanitize_input that limits the length before the substitutions
sanitize_input_truncates_first(text, max_length) ==
    IF ~Truthy(text) \/ ~IsStr(text) THEN Str(<<>>)
    ELSE LET s0 == SliceTo(text.s, max_length)
             s1 == sub(Rep(Ch(Whitespace), 1, MAXREPEAT), <<" ">>, s0)
             s2 == sub(Ch(ControlChars), <<>>, s1)
             s3 == sub(Ch(BracketChars), <<>>, s2)
             s4 == sub(Rep(Ch(PunctChars), 3, MAXREPEAT), <<>>, s3)
         IN  Str(strip(s4))

sanitize_input(text, max_length) ==
    IF ~Truthy(text) \/ ~IsStr(text) THEN Str(<<>>)
    ELSE LET s1 == sub(Rep(Ch(Whitespace), 1, MAXREPEAT), <<" ">>, text.s)
             s2 == sub(Ch(ControlChars), <<>>, s1)
             s3 == sub(Ch(BracketChars), <<>>, s2)
             s4 == sub(Rep(Ch(PunctChars), 3, MAXREPEAT), <<>>, s3)
             s5 == SliceTo(s4, max_length)
         IN  Str(strip(s5))

\* [t for t in threats if t.severity == "high"] is non-empty
HasHigh(threats) == \E n \in 1..Len(threats) : threats[n].severity = "high"

\* is_safe_input that blocks on medium-risk findings as well
is_safe_input_blocks_medium(self, text, context) ==
    LET threats == analyze_input(self, text, context)
    IN  IF \E n \in 1..Len(threats) : threats[n].severity \in {"high", "medium"}
        THEN <<FALSE, threats>> ELSE <<TRUE, threats>>

\* is_safe_input that refuses a value that is not a string
is_safe_input_blocks_other(self, text, context) ==
    LET threats == analyze_input(self, text, context)
    IN  IF HasHigh(threats) \/ (Truthy(text) /\ ~IsStr(text))
        THEN <<FALSE, threats>> ELSE <<TRUE, threats>>

\* is_safe_input that lets the high-risk findings of a transcript pass
is_safe_input_by_context(self, text, context) ==
    LET threats == analyze_input(self, text, context)
    IN  IF HasHigh(threats) /\ context # "transcript"
        THEN <<FALSE, threats>> ELSE <<TRUE, threats>>

is_safe_input(self, text, context) ==
    LET threats == analyze_input(self, text, context)
    IN  IF HasHigh(threats) THEN <<FALSE, threats>> ELSE <<TRUE, threats>>

----------------------------------------------------------------------------
(* validate_call_data *)

\* One call of the module-level detector made by validate_call_data
DetectorCall(method, field) == [method |-> method, field |-> field]

Validation(ok, msg, data, calls) == [ok |-> ok, msg |-> msg, data |-> data, calls |-> calls]

TextFields == <<"caller_name", "transcript", "call_summary", "call_outcome">>

\* The body of validate_call_data from its n-th text field on, with the
\* record and the detector calls built so far.  v tells how it proceeds;
\* AsInSource is the way of the source, the other settings deviate from it:
\*   v.short_circuit = FALSE   the fields after a blocked one are still processed
\*   v.partial = TRUE          a rejection returns the fields sanitized so far
\*   v.limits                  the max_length given to sanitize_input per field
\*   v.msgs                    the message of a rejection per field
\*   v.clean_phone = TRUE      caller_phone is passed through sanitize_input
RECURSIVE ValidateFrom(_, _, _, _, _, _)
ValidateFrom(self, call_data, v, n, data, calls) ==
    IF n > Len(TextFields)
    THEN LET phone == Get(call_data, "caller_phone", Str(<<>>))
         IN  Validation(TRUE, "Input validated successfully",
                        data @@ ("caller_phone" :> IF v.clean_phone THEN sanitize_input(phone, 50)
                                                   ELSE phone)
                             @@ ("call_duration" :> Get(call_data, "call_duration", IntV(0))),
                        calls)
    ELSE LET f == TextFields[n]
             value == Get(call_data, f, Str(<<>>))
             calls1 == calls \o <<DetectorCall("is_safe_input", f)>>
         IN  IF is_safe_input(self, value, f)[1]
             THEN ValidateFrom(self, call_data, v, n + 1,
                                      data @@ (f :> sanitize_input(value, v.limits[f])),
                                      calls1 \o <<DetectorCall("sanitize_input", f)>>)
             ELSE IF v.short_circuit
             THEN Validation(FALSE, v.msgs[f], IF v.partial THEN data ELSE EmptyDict, calls1)
             ELSE Validation(FALSE, v.msgs[f], EmptyDict,
                             ValidateFrom(self, call_data, v, n + 1, data, calls1).calls)

SourceLimits ==
    [caller_name |-> 100, transcript |-> 5000, call_summary |-> 500, call_outcome |-> 50]

SourceMessages ==
    [caller_name |-> "Caller name contains suspicious content",
     transcript |-> "Transcript contains potential prompt injection",
     call_summary |-> "Call summary contains suspicious content",
     call_outcome |-> "Call outcome contains suspicious content"]

AsInSource ==
    [short_circuit |-> TRUE, partial |-> FALSE, limits |-> SourceLimits,
     msgs |-> SourceMessages, clean_phone |-> FALSE]

\* all four fields are scanned before the verdict is returned
validate_call_data_scans_all(self, call_data) ==
    ValidateFrom(self, call_data, [AsInSource EXCEPT !.short_circuit = FALSE],
                        1, EmptyDict, <<>>)

\* a rejection returns the record filled so far
validate_call_data_partial(self, call_data) ==
    ValidateFrom(self, call_data, [AsInSource EXCEPT !.partial = TRUE],
                        1, EmptyDict, <<>>)

\* every field is sanitized with the default max_length of sanitize_input
validate_call_data_default_limit(self, call_data) ==
    ValidateFrom(self, call_data,
                        [AsInSource EXCEPT !.limits = [f \in DOMAIN SourceLimits |-> 1000]],
                        1, EmptyDict, <<>>)

\* caller_phone is sanitized like a text field
validate_call_data_cleans_phone(self, call_data) ==
    ValidateFrom(self, call_data, [AsInSource EXCEPT !.clean_phone = TRUE],
                        1, EmptyDict, <<>>)

\* the transcript branch returns the message of the caller name branch
validate_call_data_copied_message(self, call_data) ==
    ValidateFrom(self, call_data,
                        [AsInSource EXCEPT !.msgs.transcript = SourceMessages.caller_name],
                        1, EmptyDict, <<>>)

\* validate_call_data(call_data): the tuple (ok, message, sanitized_data) it
\* returns, and in calls the detector methods it invoked, in order, each
\* with the key of the field it was given.  The source repeats one block
\* per text field (is_safe_input, return on a finding, sanitize_input into
\* sanitized_data) and then copies caller_phone and call_duration.
validate_call_data(self, call_data) ==
    ValidateFrom(self, call_data, AsInSource, 1, EmptyDict, <<>>)

\* no call of validate_call_data
NoValidation == Validation(FALSE, "", EmptyDict, <<>>)

----------------------------------------------------------------------------
(* FollowUpBossClient (fubmcp.py) *)

\* A string literal of the source that the program only passes on (it is
\* never scanned, measured or compared with input) is kept as one piece.
Text(literal) == [t |-> "str", s |-> <<literal>>]

\* an f-string: the template and the values formatted into it
Format(template, args) == [t |-> "fstr", template |-> template, args |-> args]

\* s.rstrip()
rstrip(s) ==
    LET trail == Cardinality({i \in 1..Len(s) : \A j \in i..Len(s) : s[j] \in Whitespace})
    IN  SubSeq(s, 1, Len(s) - trail)

\* str(v).strip() of a value of a request to the CRM.  A note begins with
\* its heading, which no whitespace precedes, and ends with the value of
\* its last line.
StrStrip(v) ==
    CASE v.t = "str" -> Str(strip(v.s))
      [] v.t = "note" ->
            LET n == Len(v.parts)
                last == v.parts[n]
                m == Len(last.args)
            IN  IF m = 0 \/ ~IsStr(last.args[m]) THEN v
                ELSE [v EXCEPT !.parts[n].args[m] = Str(rstrip(last.args[m].s))]
      [] OTHER -> v

\* {k: str(v).strip() if v else None for k, v in value.items() if v}
CleanDict(d) == [k \in {k \in DOMAIN d : Truthy(d[k])} |-> StrStrip(d[k])]

\* the answer of the CRM to POST /events
CrmAnswers == {"created", "error"}

\* FollowUpBossClient.create_event(data) with the answer crm of the CRM:
\* the requests sent, and the result returned unless it raised
create_event(data, crm) ==
    IF ~Truthy(Get(data, "person", NoneV))
    THEN [raised |-> TRUE, requests |-> <<>>, result |-> EmptyDict]
    ELSE LET clean_data ==
                 [k \in DOMAIN data |->
                     IF data[k].t = "dict" THEN [t |-> "dict", d |-> CleanDict(data[k].d)]
                     ELSE StrStrip(data[k])]
             sent == <<[method |-> "POST", endpoint |-> "events", json |-> clean_data]>>
         IN  IF crm = "error"
             THEN [raised |-> TRUE, requests |-> sent, result |-> EmptyDict]
             ELSE [raised |-> FALSE, requests |-> sent,
                   result |-> [event |-> [id |-> Text("<event id>"),
                                          person |-> [id |-> Text("<person id>")]]]]

----------------------------------------------------------------------------
(* SecureMCPServer (secure_elevenlabs_mcp.py) *)

Qualify == Str(<<"Q", "u", "a", "l", "i", "f", "y">>)

agent_assignments_0 ==
    (<<"S", "t", "a", "n", "d", "a", "r", "d", " ", "m", "a", "i", "l", "e", "r">>
        :> [id |-> 8, name |-> Text("Sloan Edgeton")])
    @@ (<<"G", "o", "o", "g", "l", "e">>
        :> [id |-> 9, name |-> Text("Steve Johnson")])
    @@ (<<"T", "e", "x", "t", "i", "n", "g">>
        :> [id |-> 9, name |-> Text("Steve Johnson")])
    @@ (<<"C", "o", "l", "d", " ", "E", "m", "a", "i", "l">>
        :> [id |-> 9, name |-> Text("Steve Johnson")])
    @@ (<<"D", "N", "C">>
        :> [id |-> 3, name |-> Text("Riggs Garcia")])
    @@ (<<"R", "e", "a", "l", "t", "o", "r", "/", "W", "h", "o", "l", "e", "s", "a", "l", "e", "r">>
        :> [id |-> 1, name |-> Text("Andy Rouse")])
    @@ (<<"S", "e", "l", "l", "e", "r", " ", "n", "o", "t", " ", "i", "n", "t", "e", "r", "e", "s", "t", "e", "d">>
        :> [id |-> 1, name |-> Text("Andy Rouse")])
    @@ (<<"d", "e", "f", "a", "u", "l", "t">>
        :> [id |-> 9, name |-> Text("Steve Johnson")])

\* SecureMCPServer(): the API key and the auth token are required, the
\* webhook secret is optional (None when the variable is not set)
NewServer(webhook_secret) ==
    [api_key |-> Text("<FOLLOWUP_BOSS_API_KEY>"),
     webhook_secret |-> webhook_secret,
     auth_token |-> "<MCP_AUTH_TOKEN>",
     agent_assignments |-> agent_assignments_0]

\* key in self.agent_assignments
IsAssigned(self, key) == IsStr(key) /\ key.s \in DOMAIN self.agent_assignments

get_assigned_agent(self, source, stage) ==
    IF IsAssigned(self, stage) THEN self.agent_assignments[stage.s]
    ELSE IF IsAssigned(self, source) THEN self.agent_assignments[source.s]
    ELSE self.agent_assignments[<<"d", "e", "f", "a", "u", "l", "t">>]

\* what the POST to the Discord webhook does: status 204, another
\* status, or an exception (no connection, no webhook URL)
DiscordAnswers == {"204", "404", "error"}

\* send_discord_notification(lead_data), discord being what the POST does:
\* the message it logs.  It returns None and raises nothing: the except
\* clause logs every exception.
send_discord_notification(self, lead_data, discord) ==
    IF discord = "error" THEN "Error sending Discord notification: {e}"
    ELSE IF discord = "204" THEN "Discord notification sent for lead: {caller_name}"
    ELSE "Discord notification failed: {status_code} - {text}"

\* ^[\+\-\s\(\)\d]{10,}$
PhonePattern ==
    Cat(<<BeginOfString,
          Rep(Ch({"+", "-", "(", ")"} \cup Whitespace \cup Digit), 10, MAXREPEAT),
          EndOfString>>)

\* validate_phone(phone): "True", "False", or the exception it raises
\* (a value that is not a string has no strip())
validate_phone(phone) ==
    IF ~Truthy(phone) THEN "False"
    ELSE IF ~IsStr(phone) THEN "AttributeError"
    ELSE IF match(PhonePattern, strip(phone.s)) THEN "True"
    ELSE "False"

\* the line of the note for the key, when args.get(key) is true
NoteLine(args, key, template) ==
    IF Truthy(Get(args, key, NoneV)) THEN <<Format(template, <<args[key]>>)>> ELSE <<>>

\* _format_secure_call_note with the seconds not reduced modulo 60
format_secure_call_note_whole_seconds(args) ==
    LET duration == Get(args, "call_duration", NoneV)
        location_parts ==
            NoteLine(args, "site_county", "County: {}") \o NoteLine(args, "site_state", "State: {}")
        note_parts ==
            <<Format("AI Call Summary - {utcnow}", <<>>)>>
            \o (IF Truthy(duration)
                THEN <<Format("Duration: {}m {}s",
                              <<IntV(duration.i \div 60), IntV(duration.i)>>)>>
                ELSE <<>>)
            \o NoteLine(args, "call_outcome", "Outcome: {}")
            \o NoteLine(args, "source", "Source: {}")
            \o (IF location_parts # <<>>
                THEN <<Format("Location: {}", location_parts)>> ELSE <<>>)
            \o NoteLine(args, "reference_number", "Reference #: {}")
            \o NoteLine(args, "stage", "Stage: {}")
            \o NoteLine(args, "assigned_agent", "Assigned to: {}")
            \o NoteLine(args, "call_summary", "Summary: {}")
            \o NoteLine(args, "transcript", "Transcript:\n{}")
    IN  [t |-> "note", parts |-> note_parts]

\* _format_secure_call_note(args): the parts joined with "\n\n"
format_secure_call_note(args) ==
    LET duration == Get(args, "call_duration", NoneV)
        location_parts ==
            NoteLine(args, "site_county", "County: {}") \o NoteLine(args, "site_state", "State: {}")
        note_parts ==
            <<Format("AI Call Summary - {utcnow}", <<>>)>>
            \o (IF Truthy(duration)
                THEN <<Format("Duration: {}m {}s",
                              <<IntV(duration.i \div 60), IntV(duration.i % 60)>>)>>
                ELSE <<>>)
            \o NoteLine(args, "call_outcome", "Outcome: {}")
            \o NoteLine(args, "source", "Source: {}")
            \o (IF location_parts # <<>>
                THEN <<Format("Location: {}", location_parts)>> ELSE <<>>)
            \o NoteLine(args, "reference_number", "Reference #: {}")
            \o NoteLine(args, "stage", "Stage: {}")
            \o NoteLine(args, "assigned_agent", "Assigned to: {}")
            \o NoteLine(args, "call_summary", "Summary: {}")
            \o NoteLine(args, "transcript", "Transcript:\n{}")
    IN  [t |-> "note", parts |-> note_parts]

\* person_data[key] = value if value is true
Custom(key, value) == IF Truthy(value) THEN key :> value ELSE EmptyDict

\* What a call of _log_call_secure did: it returned text or raised; checks
\* are the checks it evaluated, in order; clients the FollowUpBossClient
\* objects it created, each open or closed at the end; requests what it
\* sent to the CRM; tasks the notifications it scheduled.
\* a call that schedules its notification as soon as it has a client
LogResult_notifies_before_event(outcome, text, checks, validated, created, requests, tasks) ==
    [outcome |-> outcome, text |-> text, checks |-> checks, validated |-> validated,
     clients |-> created, requests |-> requests,
     tasks |-> IF created # <<>> /\ validated.ok
               THEN <<[caller_name |-> validated.data.caller_name]>> ELSE tasks]

LogResult(outcome, text, checks, validated, created, requests, tasks) ==
    [outcome |-> outcome, text |-> text, checks |-> checks, validated |-> validated,
     clients |-> created, requests |-> requests, tasks |-> tasks]

\* The rest of _log_call_secure once the checks have passed (lines 376-450):
\* the client is created, the event sent and the client closed.
log_call_try(self, sanitized_data, v, checks, crm) ==
    LET caller_name == Get(sanitized_data, "caller_name", Str(<<>>))
        caller_phone == Get(sanitized_data, "caller_phone", Str(<<>>))
        transcript == Get(sanitized_data, "transcript", Str(<<>>))
        call_summary == Get(sanitized_data, "call_summary", Str(<<>>))
        call_outcome == Get(sanitized_data, "call_outcome", Str(<<>>))
        call_duration == Get(sanitized_data, "call_duration", IntV(0))
        source == Get(sanitized_data, "source", Str(<<>>))
        site_county == Get(sanitized_data, "site_county", Str(<<>>))
        site_state == Get(sanitized_data, "site_state", Str(<<>>))
        reference_number == Get(sanitized_data, "reference_number", Str(<<>>))
        acreage == Get(sanitized_data, "acreage", Str(<<>>))
        stage == Get(sanitized_data, "stage", Qualify)
        duration ==
            IF ~IsInt(call_duration) \/ call_duration.i < 0 \/ call_duration.i > 7200
            THEN IntV(0) ELSE call_duration
        assigned_agent == get_assigned_agent(self, source, stage)
        person_data ==
            [name |-> caller_name,
             phone |-> caller_phone,
             source |-> IF Truthy(source) THEN source ELSE Text("ElevenLabs AI Call"),
             stage |-> stage,
             assignedTo |-> assigned_agent.name]
            @@ Custom("Site County", site_county)
            @@ Custom("Site State", site_state)
            @@ Custom("Reference Number", reference_number)
            @@ Custom("Acreage", acreage)
        event_data ==
            [type |-> Text("call"),
             person |-> [t |-> "dict", d |-> person_data],
             note |-> format_secure_call_note(
                          [call_duration |-> duration,
                           call_outcome |-> call_outcome,
                           call_summary |-> call_summary,
                           transcript |-> transcript,
                           source |-> source,
                           site_county |-> site_county,
                           site_state |-> site_state,
                           reference_number |-> reference_number,
                           stage |-> stage,
                           assigned_agent |-> assigned_agent.name]),
             source |-> Text("ElevenLabs")]
        created == create_event(event_data, crm)
    IN
    IF created.raised
    THEN LogResult("return", Format("Failed to log call - please try again", <<>>),
                   checks, v, <<"closed">>, created.requests, <<>>)
    ELSE
    LET event_id == created.result.event.id
        person_id == created.result.event.person.id
        discord_data ==
            [caller_name |-> caller_name, site_county |-> site_county,
             site_state |-> site_state, acreage |-> acreage, source |-> source,
             stage |-> stage, assigned_agent |-> assigned_agent.name,
             person_id |-> person_id]
    IN  LogResult("return", Format("Call logged successfully (Event ID: {})", <<event_id>>),
                  checks, v, <<"closed">>, created.requests, <<discord_data>>)

\* _log_call_secure without its three checks
log_call_secure_unchecked(self, det, args, crm) ==
    LET v == validate_call_data(det, args)
    IN  log_call_try(self, v.data, v, <<>>, crm)

\* _log_call_secure from line 353 on, v being what validate_call_data
\* returned for the arguments
log_call_validated(self, v, crm) ==
    LET checks1 == <<"validate_call_data">>
    IN
    IF ~v.ok
    THEN LogResult("return", Format("Security validation failed: {}", <<v.msg>>),
                   checks1, v, <<>>, <<>>, <<>>)
    ELSE
    LET sanitized_data == v.data
        caller_name == Get(sanitized_data, "caller_name", Str(<<>>))
        caller_phone == Get(sanitized_data, "caller_phone", Str(<<>>))
        checks2 == checks1 \o <<"caller_name">>
    IN
    IF ~Truthy(caller_name) \/ Len(caller_name.s) < 2
    THEN LogResult("return", Format("Invalid caller name", <<>>), checks2, v, <<>>, <<>>, <<>>)
    ELSE
    LET phone_ok == validate_phone(caller_phone)
        checks3 == checks2 \o <<"validate_phone">>
    IN
    IF phone_ok = "AttributeError"
    THEN LogResult("raise", Format("AttributeError", <<>>), checks3, v, <<>>, <<>>, <<>>)
    ELSE IF phone_ok = "False"
    THEN LogResult("return", Format("Invalid phone number format", <<>>),
                   checks3, v, <<>>, <<>>, <<>>)
    ELSE log_call_try(self, sanitized_data, v, checks3, crm)

\* _log_call_secure(args), crm being the answer of the CRM
log_call_secure(self, det, args, crm) ==
    log_call_validated(self, validate_call_data(det, args), crm)

NoLogResult == LogResult("none", Format("", <<>>), <<>>, NoValidation, <<>>, <<>>, <<>>)

JsonRpcResult(request_id, result) == [jsonrpc |-> "2.0", id |-> request_id, result |-> result]

JsonRpcError(request_id, code, message) ==
    [jsonrpc |-> "2.0", id |-> request_id, error |-> [code |-> code, message |-> message]]

\* the response to tools/call without the except clause of handle_jsonrpc
ToolCallResponse_uncaught(request_id, log) ==
    [response |-> JsonRpcResult(request_id,
                     [content |-> <<[type |-> "text", text |-> log.text]>>]),
     log |-> log]

\* the response to tools/call for log_call: the text that _log_call_secure
\* returned, or the error of the except clause when it raised
ToolCallResponse(request_id, log) ==
    IF log.outcome = "raise"
    THEN [response |-> JsonRpcError(request_id, -32603, "Internal server error"),
          log |-> log]
    ELSE [response |-> JsonRpcResult(request_id,
                          [content |-> <<[type |-> "text", text |-> log.text]>>]),
          log |-> log]

\* handle_jsonrpc(request): the response, and what _log_call_secure did if
\* the request reached it
handle_jsonrpc(self, det, request, crm) ==
    LET method == Get(request, "method", "")
        params == Get(request, "params", EmptyDict)
        request_id == Get(request, "id", NoneV)
    IN
    \* params.get raises when params is no mapping; the except clause answers
    IF method \in {"initialize", "tools/call"} /\ "t" \in DOMAIN params
    THEN [response |-> JsonRpcError(request_id, -32603, "Internal server error"),
          log |-> NoLogResult]
    ELSE
    CASE method = "initialize" ->
            [response |-> JsonRpcResult(request_id,
                             [protocolVersion |-> Get(params, "protocolVersion", "2024-11-05"),
                              serverInfo |-> "secure-followup-boss-mcp"]),
             log |-> NoLogResult]
      [] method = "tools/list" ->
            [response |-> JsonRpcResult(request_id, [tools |-> <<"log_call">>]),
             log |-> NoLogResult]
      [] method = "notifications/initialized" ->
            [response |-> JsonRpcResult(request_id, EmptyDict), log |-> NoLogResult]
      [] method = "tools/call" ->
            IF Get(params, "name", "") = "log_call"
            THEN ToolCallResponse(request_id,
                     log_call_secure(self, det, Get(params, "arguments", EmptyDict), crm))
            ELSE [response |-> JsonRpcError(request_id, -32603, "Internal server error"),
                  log |-> NoLogResult]
      [] OTHER ->
            [response |-> JsonRpcError(request_id, -32601, "Method not found"),
             log |-> NoLogResult]

HttpOk(body) == [status |-> 200, body |-> body]
HttpError(status, detail) == [status |-> status, detail |-> detail]

\* An HTTP request: whether its body parses as JSON, the parsed body, the
\* Authorization header split at the blanks (<<>> when it is missing) and
\* the elevenlabs-signature header split at the commas, each part as
\* <<prefix, rest>> (<<>> when it is missing).
HttpRequest(json_ok, body, authorization, signature) ==
    [json_ok |-> json_ok, body |-> body, authorization |-> authorization,
     signature |-> signature]

\* the check of messages_endpoint before a tools/call
Authenticated(self, auth_header) ==
    /\ Len(auth_header) >= 2
    /\ auth_header[1] = "Bearer"
    /\ auth_header[2] = self.auth_token

\* the endpoint returns what handle_jsonrpc answered, as the JSON body of
\* a 200 response
JSONResponse(handled) == [response |-> HttpOk(handled.response), log |-> handled.log]

\* messages_endpoint: POST /messages/{session_id}.  The HTTPException that
\* the authentication check raises is raised inside the try block, whose
\* handler for Exception turns it into the 500 response.
messages_endpoint(self, det, req, crm) ==
    IF ~req.json_ok
    THEN [response |-> HttpError(400, "Invalid JSON"), log |-> NoLogResult]
    ELSE IF /\ Get(req.body, "method", "") = "tools/call"
            /\ ~Authenticated(self, req.authorization)
    THEN [response |-> HttpError(500, "Internal server error"), log |-> NoLogResult]
    ELSE JSONResponse(handle_jsonrpc(self, det, req.body, crm))

\* mcp_endpoint: POST /mcp, without an authentication check
mcp_endpoint(self, det, req, crm) ==
    IF ~req.json_ok
    THEN [response |-> HttpError(400, "Invalid JSON"), log |-> NoLogResult]
    ELSE JSONResponse(handle_jsonrpc(self, det, req.body, crm))

----------------------------------------------------------------------------
(* handle_elevenlabs_webhook: POST /webhook/elevenlabs *)

\* hmac.new(secret, message, sha256).hexdigest(): a value that only the
\* same secret and the same message produce
Hmac(secret, message) == <<"hmac-sha256", secret, message>>

\* the verification of the signature header (lines 781-805): FALSE when
\* it raises
SignatureVerified(self, req) ==
    LET parts == req.signature
    IN  /\ Len(parts) = 2
        /\ parts[1][1] = "t="
        /\ parts[2][1] = "v0="
        /\ parts[2][2] = Hmac(self.webhook_secret, <<parts[1][2], req.body>>)

\* \b(?:\+?1[\s.-]?)?\(?\d{3}\)?[\s.-]?\d{3}[\s.-]?\d{4}\b
PhoneInMessage ==
    LET sep == Rep(Ch(Whitespace \cup {".", "-"}), 0, 1)
    IN  Cat(<<WordBoundary,
              Rep(Cat(<<Rep(Ch({"+"}), 0, 1), Ch({"1"}), sep>>), 0, 1),
              Rep(Ch({"("}), 0, 1), Rep(Ch(Digit), 3, 3), Rep(Ch({")"}), 0, 1), sep,
              Rep(Ch(Digit), 3, 3), sep, Rep(Ch(Digit), 4, 4),
              WordBoundary>>)

Unknown == Str(<<"U", "n", "k", "n", "o", "w", "n">>)
UnknownCaller == Str(<<"U", "n", "k", "n", "o", "w", "n", " ", "C", "a", "l", "l", "e", "r">>)
User == Str(<<"u", "s", "e", "r">>)

\* the loop over the transcript that looks for a phone number in what the
\* user said
RECURSIVE PhoneFromTranscript(_, _)
PhoneFromTranscript(transcript, n) ==
    IF n > Len(transcript) THEN Unknown
    ELSE LET entry == transcript[n]
             message == Get(entry, "message", Str(<<>>))
             found == IF Get(entry, "role", NoneV) = User
                      THEN finditer(PhoneInMessage, message.s) ELSE <<>>
         IN  IF found # <<>> THEN Str(group(message.s, Head(found)))
             ELSE PhoneFromTranscript(transcript, n + 1)

\* str(n) of an int
RECURSIVE Decimal(_)
Decimal(n) ==
    IF n < 0 THEN <<"-">> \o Decimal(-n)
    ELSE LET last == <<CHOOSE d \in Digit : d = ToString(n % 10)>>
         IN  IF n < 10 THEN last ELSE Decimal(n \div 10) \o last

\* the text an f-string puts for the value
Formatted(v) ==
    CASE v.t = "str" -> v.s
      [] v.t = "int" -> Decimal(v.i)
      [] v.t = "none" -> <<"N", "o", "n", "e">>

\* the loop that builds transcript_text
RECURSIVE TranscriptText(_, _)
TranscriptText(transcript, n) ==
    IF n > Len(transcript) THEN <<>>
    ELSE LET entry == transcript[n]
             role == Get(entry, "role", Str(<<"u", "n", "k", "n", "o", "w", "n">>))
             message == Get(entry, "message", Str(<<>>))
             time_in_call == Get(entry, "time_in_call_secs", Str(<<>>))
         IN  <<"[">> \o Formatted(time_in_call) \o <<"s", "]", " ">>
             \o [i \in 1..Len(role.s) |-> ToUpper(role.s[i])] \o <<":", " ">>
             \o Formatted(message) \o <<"\n", "\n">>
             \o TranscriptText(transcript, n + 1)

\* s.split(): the words between the runs of whitespace
RECURSIVE SplitFrom(_, _, _)
SplitFrom(s, i, word) ==
    LET done == IF word = <<>> THEN <<>> ELSE <<word>>
    IN  IF i > Len(s) THEN done
        ELSE IF s[i] \in Whitespace THEN done \o SplitFrom(s, i + 1, <<>>)
        ELSE SplitFrom(s, i + 1, Append(word, s[i]))

split(s) == SplitFrom(s, 1, <<>>)

\* " ".join(words)
RECURSIVE join(_)
join(words) ==
    IF words = <<>> THEN <<>>
    ELSE IF Len(words) = 1 THEN words[1]
    ELSE words[1] \o <<" ">> \o join(Tail(words))

\* call_args as the handler extracts it from the data of the webhook
\* (lines 810-870)
webhook_call_args(data) ==
    LET transcript == Get(data, "transcript", <<>>)
        metadata == Get(data, "metadata", EmptyDict)
        analysis == Get(data, "analysis", EmptyDict)
        dynamic_vars ==
            Get(Get(data, "conversation_initiation_client_data", EmptyDict),
                "dynamic_variables", EmptyDict)
        user_name == Get(dynamic_vars, "user_name", UnknownCaller)
        user_phone == Get(dynamic_vars, "user_phone", Unknown)
        caller_name ==
            IF ~Truthy(user_name) \/ ~IsStr(user_name) THEN UnknownCaller ELSE user_name
        caller_phone0 ==
            IF ~Truthy(user_phone) \/ ~IsStr(user_phone) THEN Unknown ELSE user_phone
        caller_phone ==
            IF caller_phone0 = Unknown THEN PhoneFromTranscript(transcript, 1)
            ELSE caller_phone0
        transcript_text == TranscriptText(transcript, 1)
        call_duration == Get(metadata, "call_duration_secs", IntV(0))
        summary == Get(analysis, "transcript_summary", Str(<<"N", "o", " ", "s", "u", "m", "m", "a", "r", "y", " ", "a", "v", "a", "i", "l", "a", "b", "l", "e">>))
    IN  [caller_name |-> caller_name,
         caller_phone |-> caller_phone,
         transcript |-> Str(SliceTo(transcript_text, 5000)),
         call_duration |-> call_duration,
         call_summary |-> Str(SliceTo(IF Truthy(summary) THEN summary.s ELSE <<>>, 500)),
         call_outcome |-> Get(analysis, "call_successful", Str(<<"c", "o", "m", "p", "l", "e", "t", "e", "d">>)),
         source |-> Text("ElevenLabs Webhook"),
         site_county |-> Get(dynamic_vars, "site_county", Str(<<>>)),
         site_state |-> Get(dynamic_vars, "site_state", Str(<<>>)),
         reference_number |-> Get(dynamic_vars, "reference_number", Str(<<>>)),
         acreage |-> Get(dynamic_vars, "acreage", Str(<<>>)),
         stage |-> Qualify]

\* the handler from line 875 on: the client is created, the event built
\* from call_args and sent, and the client closed when nothing was raised
webhook_log_call(call_args, conversation_id, crm) ==
    LET note == format_secure_call_note(call_args)
        name_parts == split(call_args.caller_name.s)
        first_name == IF name_parts # <<>> THEN Str(name_parts[1]) ELSE Unknown
        last_name ==
            IF Len(name_parts) > 1 THEN Str(join(Tail(name_parts))) ELSE Str(<<"C", "a", "l", "l", "e", "r">>)
        event_data ==
            [type |-> Text("call"),
             person |-> [t |-> "dict",
                         d |-> [firstName |-> first_name,
                                lastName |-> last_name,
                                phone |-> call_args.caller_phone,
                                source |-> call_args.source,
                                customSiteCounty |-> call_args.site_county,
                                customSiteState |-> call_args.site_state,
                                customReferenceNumber |-> call_args.reference_number,
                                customAcreage |-> call_args.acreage]],
             note |-> note,
             source |-> Text("ElevenLabs")]
        created == create_event(event_data, crm)
    IN
    IF created.raised
    THEN [response |-> HttpError(500, "Failed to log call: {log_error}"),
          log |-> LogResult("raise", Format("{log_error}", <<>>), <<>>, NoValidation,
                            <<"open">>, created.requests, <<>>)]
    ELSE
    LET event_id == created.result.event.id
    IN  [response |-> HttpOk([status |-> "success",
                              message |-> "Call logged successfully",
                              conversation_id |-> conversation_id,
                              event_id |-> event_id]),
         log |-> LogResult("return",
                           Format("Webhook call logged successfully (Event ID: {})", <<event_id>>),
                           <<>>, NoValidation, <<"closed">>, created.requests, <<>>)]

\* handle_elevenlabs_webhook, crm being the answer of the CRM: the
\* response, and what the handler did to log the call
handle_elevenlabs_webhook(self, req, crm) ==
    IF ~req.json_ok
    THEN [response |-> HttpError(400, "Invalid JSON payload"), log |-> NoLogResult]
    ELSE
    LET webhook_data == req.body IN
    IF Get(webhook_data, "type", "") # "post_call_transcription"
    THEN [response |-> HttpOk([status |-> "ignored",
                               reason |-> "Not a post-call transcription webhook"]),
          log |-> NoLogResult]
    ELSE IF /\ Truthy(self.webhook_secret)
            /\ req.signature # <<>>
            /\ ~SignatureVerified(self, req)
    THEN [response |-> HttpError(401, "Invalid signature format"), log |-> NoLogResult]
    ELSE
    webhook_log_call(webhook_call_args(Get(webhook_data, "data", EmptyDict)),
                     Get(Get(webhook_data, "data", EmptyDict), "conversation_id", Unknown),
                     crm)

NoRequest == [endpoint |-> "", request |-> HttpRequest(FALSE, NoneV, <<>>, <<>>), crm |-> ""]
NoResponse == [status |-> 0]

\* WEBHOOK_SECRET is set or not
WebhookSecrets == {NoneV, Text("<WEBHOOK_SECRET>")}

----------------------------------------------------------------------------
(* The detector calls of several callers, statement by statement.  Every
   call runs in a frame of its own, which holds its arguments and its
   locals; the callers share the module-level detector, which a statement
   receives as self and leaves as it is. *)

MaxCallers == 2

Callers == 1..MaxCallers

\* the frame of a call: the operation, the place it has reached, the
\* arguments (text, context, max_length, call_data) and the locals (the
\* index n of the field in hand, threats, the verdict, sanitized, and
\* sanitized_data with what is returned)
Frame(operation, text, context, max_length, call_data) ==
    [op |-> operation, pc |-> "start", text |-> text, context |-> context,
     max_length |-> max_length, call_data |-> call_data, n |-> 0, threats |-> <<>>,
     allowed |-> TRUE, sanitized |-> <<>>, validated |-> NoValidation]

\* no call in progress
NoFrame ==
    [op |-> "none", pc |-> "idle", text |-> NoneV, context |-> "", max_length |-> 0,
     call_data |-> EmptyDict, n |-> 0, threats |-> <<>>, allowed |-> TRUE,
     sanitized |-> <<>>, validated |-> NoValidation]

\* what a statement leaves: the detector and the frame
After(self, frame) == [self |-> self, frame |-> frame]

\* is_safe_input with a list of findings that the detector keeps for all
\* its callers instead of a local of analyze_input
is_safe_input_step_shared_threats(self, frame) ==
    LET shared == [high_risk_patterns |-> self.high_risk_patterns,
                   medium_risk_patterns |-> self.medium_risk_patterns,
                   low_risk_patterns |-> self.low_risk_patterns,
                   threats |-> IF "threats" \in DOMAIN self THEN self.threats ELSE <<>>]
        found(more, next) ==
            After([shared EXCEPT !.threats = @ \o more],
                  [frame EXCEPT !.threats = shared.threats \o more, !.pc = next])
    IN
    CASE frame.pc = "start" ->
            IF ~Truthy(frame.text) \/ ~IsStr(frame.text)
            THEN After(self, [frame EXCEPT !.threats = <<>>, !.pc = "verdict"])
            ELSE After([shared EXCEPT !.threats = <<>>],
                       [frame EXCEPT !.threats = <<>>, !.pc = "high"])
      [] frame.pc = "high" ->
            found(CatalogThreats(self.high_risk_patterns, 1, frame.text.s, "high",
                                 "prompt_injection",
                                 <<"Potential prompt injection detected in ", frame.context>>),
                  "medium")
      [] frame.pc = "medium" ->
            found(CatalogThreats(self.medium_risk_patterns, 1, frame.text.s, "medium",
                                 "suspicious_content",
                                 <<"Suspicious content detected in ", frame.context>>),
                  "low")
      [] frame.pc = "low" ->
            found(CatalogThreats(self.low_risk_patterns, 1, frame.text.s, "low",
                                 "potentially_suspicious",
                                 <<"Potentially suspicious content in ", frame.context>>),
                  "verdict")
      [] frame.pc = "verdict" ->
            After(self, [frame EXCEPT !.allowed = ~HasHigh(frame.threats), !.pc = "done"])

\* is_safe_input whose scan gathers the rules of the three catalogs in the
\* first one instead of a new list
is_safe_input_step_extends_catalog(self, frame) ==
    LET gathered == [self EXCEPT !.high_risk_patterns =
                        @ \o self.medium_risk_patterns \o self.low_risk_patterns]
    IN
    CASE frame.pc = "start" ->
            IF ~Truthy(frame.text) \/ ~IsStr(frame.text)
            THEN After(self, [frame EXCEPT !.threats = <<>>, !.pc = "verdict"])
            ELSE After(gathered, [frame EXCEPT !.threats = <<>>, !.pc = "high"])
      [] frame.pc \in {"high", "medium", "low"} ->
            After(self,
                  [frame EXCEPT
                      !.threats = CatalogThreats(self.high_risk_patterns, 1, frame.text.s,
                                      "high", "prompt_injection",
                                      <<"Potential prompt injection detected in ", frame.context>>),
                      !.pc = "verdict"])
      [] frame.pc = "verdict" ->
            After(self, [frame EXCEPT !.allowed = ~HasHigh(frame.threats), !.pc = "done"])

\* The next statement of is_safe_input(text, context).  The call begins
\* with analyze_input: its guard and threats = [] (start), then the loops
\* over the high, the medium and the low catalog; with the findings
\* returned, is_safe_input takes its verdict.
is_safe_input_step(self, frame) ==
    CASE frame.pc = "start" ->
            IF ~Truthy(frame.text) \/ ~IsStr(frame.text)
            THEN After(self, [frame EXCEPT !.threats = <<>>, !.pc = "verdict"])
            ELSE After(self, [frame EXCEPT !.threats = <<>>, !.pc = "high"])
      [] frame.pc = "high" ->
            After(self,
                  [frame EXCEPT
                      !.threats = @ \o CatalogThreats(self.high_risk_patterns, 1, frame.text.s,
                                        "high", "prompt_injection",
                                        <<"Potential prompt injection detected in ", frame.context>>),
                      !.pc = "medium"])
      [] frame.pc = "medium" ->
            After(self,
                  [frame EXCEPT
                      !.threats = @ \o CatalogThreats(self.medium_risk_patterns, 1, frame.text.s,
                                        "medium", "suspicious_content",
                                        <<"Suspicious content detected in ", frame.context>>),
                      !.pc = "low"])
      [] frame.pc = "low" ->
            After(self,
                  [frame EXCEPT
                      !.threats = @ \o CatalogThreats(self.low_risk_patterns, 1, frame.text.s,
                                        "low", "potentially_suspicious",
                                        <<"Potentially suspicious content in ", frame.context>>),
                      !.pc = "verdict"])
      [] frame.pc = "verdict" ->
            After(self, [frame EXCEPT !.allowed = ~HasHigh(frame.threats), !.pc = "done"])

\* The next statement of sanitize_input(text, max_length): the guard and
\* sanitized = text (start), the four substitutions, the slice, and the
\* return of sanitized.strip().
sanitize_input_step(self, frame) ==
    CASE frame.pc = "start" ->
            IF ~Truthy(frame.text) \/ ~IsStr(frame.text)
            THEN After(self, [frame EXCEPT !.sanitized = <<>>, !.pc = "done"])
            ELSE After(self, [frame EXCEPT !.sanitized = frame.text.s, !.pc = "whitespace"])
      [] frame.pc = "whitespace" ->
            After(self, [frame EXCEPT
                            !.sanitized = sub(Rep(Ch(Whitespace), 1, MAXREPEAT), <<" ">>, @),
                            !.pc = "control"])
      [] frame.pc = "control" ->
            After(self, [frame EXCEPT !.sanitized = sub(Ch(ControlChars), <<>>, @),
                                      !.pc = "brackets"])
      [] frame.pc = "brackets" ->
            After(self, [frame EXCEPT !.sanitized = sub(Ch(BracketChars), <<>>, @),
                                      !.pc = "punctuation"])
      [] frame.pc = "punctuation" ->
            After(self, [frame EXCEPT
                            !.sanitized = sub(Rep(Ch(PunctChars), 3, MAXREPEAT), <<>>, @),
                            !.pc = "limit"])
      [] frame.pc = "limit" ->
            After(self, [frame EXCEPT !.sanitized = SliceTo(@, frame.max_length),
                                      !.pc = "strip"])
      [] frame.pc = "strip" ->
            After(self, [frame EXCEPT !.sanitized = strip(@), !.pc = "done"])

\* The next statement of validate_call_data(call_data): sanitized_data = {}
\* (start); for the text field number n the call of detector.is_safe_input
\* with the return of a rejection (scan) and the call of
\* detector.sanitize_input (clean); the copy of the two other keys and the
\* return (copy).
validate_call_data_step(self, frame) ==
    LET f == TextFields[frame.n]
        value == Get(frame.call_data, f, Str(<<>>))
        v == frame.validated
    IN
    CASE frame.pc = "start" ->
            After(self, [frame EXCEPT !.validated = Validation(FALSE, "", EmptyDict, <<>>),
                                      !.n = 1, !.pc = "scan"])
      [] frame.pc = "scan" ->
            IF is_safe_input(self, value, f)[1]
            THEN After(self,
                       [frame EXCEPT
                           !.validated.calls = @ \o <<DetectorCall("is_safe_input", f)>>,
                           !.pc = "clean"])
            ELSE After(self,
                       [frame EXCEPT
                           !.validated =
                               Validation(FALSE, SourceMessages[f], EmptyDict,
                                          v.calls \o <<DetectorCall("is_safe_input", f)>>),
                           !.pc = "done"])
      [] frame.pc = "clean" ->
            After(self,
                  [frame EXCEPT
                      !.validated.data = @ @@ (f :> sanitize_input(value, SourceLimits[f])),
                      !.validated.calls = @ \o <<DetectorCall("sanitize_input", f)>>,
                      !.n = IF frame.n < Len(TextFields) THEN frame.n + 1 ELSE frame.n,
                      !.pc = IF frame.n < Len(TextFields) THEN "scan" ELSE "copy"])
      [] frame.pc = "copy" ->
            After(self,
                  [frame EXCEPT
                      !.validated =
                          Validation(TRUE, "Input validated successfully",
                                     v.data
                                     @@ ("caller_phone" :> Get(frame.call_data, "caller_phone", Str(<<>>)))
                                     @@ ("call_duration" :> Get(frame.call_data, "call_duration", IntV(0))),
                                     v.calls),
                      !.pc = "done"])

----------------------------------------------------------------------------
(* Inputs of the detector operations *)

MaxFragments == 3
MaxLength == 4

\* the pieces the input texts are made of: plain text between a blank and
\* a line break, a control character, a bracket, punctuation, a high-risk
\* word and an upper-case low-risk word
Fragments ==
    {<<" ", "a", "\n">>, <<"x07">>, <<"(">>, <<"!">>,
     <<"s", "q", "l">>, <<"T", "E", "S", "T">>}

RECURSIVE Concat(_)
Concat(fs) == IF fs = <<>> THEN <<>> ELSE Head(fs) \o Concat(Tail(fs))

Strings == {Concat(fs) : fs \in UNION {[1..n -> Fragments] : n \in 0..MaxFragments}}

TextInputs == {Str(s) : s \in Strings} \cup {NoneV, IntV(0), IntV(7)}

Contexts == {"", "transcript"}

\* max_length arguments: nothing, a few characters, and the default
Lengths == {0, MaxLength, 1000}

Filler(n) == SubSeq([i \in 1..n |-> "x"], 1, n)

\* a dict from a total assignment: the keys assigned Absent are missing
Dict(f) == [k \in {k \in DOMAIN f : f[k] # Absent} |-> f[k]]

\* a text field of the input: missing, safe but changed by the sanitizer
\* (medium- and low-risk findings only), or blocked
FieldValues ==
    {Absent,
     Str(<<" ", "(", "T", "E", "S", "T", ")", " ", "!", "!", "!">>),
     Str(<<"s", "q", "l">>)}

\* the keys validate_call_data does not scan: missing; present with
\* ordinary values; present with values a scan would block
OtherValues ==
    {[caller_phone |-> Absent, call_duration |-> Absent, source |-> Absent],
     [caller_phone |-> Str(<<"(", "5", "5", "5", ")", " ", "1", "2", "3", "-", "4", "5", "6", "7">>),
      call_duration |-> IntV(65), source |-> Str(<<"G", "o", "o", "g", "l", "e">>)],
     [caller_phone |-> Str(<<"s", "q", "l">>), call_duration |-> Str(<<"s", "q", "l">>),
      source |-> Absent]}

\* every combination of these, and for each text field one value that is
\* one character longer than the limit of the field
CallDataInputs ==
    {Dict([caller_name |-> n, transcript |-> t, call_summary |-> s, call_outcome |-> o]
          @@ other) :
        n \in FieldValues, t \in FieldValues, s \in FieldValues, o \in FieldValues,
        other \in OtherValues}
    \cup {[caller_name |-> Str(Filler(101))], [transcript |-> Str(Filler(5001))],
          [call_summary |-> Str(Filler(501))], [call_outcome |-> Str(Filler(51))],
          [caller_name |-> NoneV, transcript |-> IntV(7)]}

----------------------------------------------------------------------------
(* The state after start-up and the calls of the detector *)

Init ==
    /\ detector = NewDetector
    /\ pc = "idle"
    /\ op = "none"
    /\ in_text = NoneV
    /\ in_context = ""
    /\ in_max = 0
    /\ out_threats = <<>>
    /\ out_allowed = TRUE
    /\ out_text = Str(<<>>)
    /\ out_text2 = Str(<<>>)
    /\ in_call_data = EmptyDict
    /\ validation = NoValidation
    /\ server \in {NewServer(secret) : secret \in WebhookSecrets}
    /\ http_request = NoRequest
    /\ http_response = NoResponse
    /\ log_result = NoLogResult
    /\ crm_requests = <<>>
    /\ clients = <<>>
    /\ discord_tasks = <<>>
    /\ frames = [c \in Callers |-> NoFrame]

\* detector.is_safe_input(text, context)
IsSafeInput ==
    /\ pc = "idle"
    /\ \E text \in TextInputs, context \in Contexts :
          \E r \in {is_safe_input(detector, text, context)} :
              /\ in_text' = text
              /\ in_context' = context
              /\ out_allowed' = r[1]
              /\ out_threats' = r[2]
    /\ pc' = "done"
    /\ op' = "is_safe_input"
    /\ UNCHANGED <<detector, server, in_max, out_text, out_text2, in_call_data, validation>>
    /\ UNCHANGED server_vars
    /\ UNCHANGED frames

\* detector.sanitize_input(text, max_length)
SanitizeInput ==
    /\ pc = "idle"
    /\ \E text \in TextInputs, max_length \in Lengths :
          /\ in_text' = text
          /\ in_max' = max_length
          /\ out_text' = sanitize_input(text, max_length)
    /\ pc' = "done"
    /\ op' = "sanitize_input"
    /\ UNCHANGED <<detector, server, in_context, out_threats, out_allowed, out_text2, in_call_data, validation>>
    /\ UNCHANGED server_vars
    /\ UNCHANGED frames

\* detector.sanitize_input(result, max_length) on the result of the last call
SanitizeAgain ==
    /\ pc = "done"
    /\ op = "sanitize_input"
    /\ out_text2' = sanitize_input(out_text, in_max)
    /\ op' = "sanitize_again"
    /\ UNCHANGED <<detector, server, pc, in_text, in_context, in_max, out_threats, out_allowed,
                   out_text, in_call_data, validation>>
    /\ UNCHANGED server_vars
    /\ UNCHANGED frames

\* validate_call_data(call_data)
ValidateCallData ==
    /\ pc = "idle"
    /\ \E cd \in CallDataInputs :
          /\ in_call_data' = cd
          /\ validation' = validate_call_data(detector, cd)
    /\ pc' = "done"
    /\ op' = "validate_call_data"
    /\ UNCHANGED <<detector, server, in_text, in_context, in_max, out_threats, out_allowed,
                   out_text, out_text2>>
    /\ UNCHANGED server_vars
    /\ UNCHANGED frames

\* the caller takes the result; the next call starts from a clean slate
Return ==
    /\ pc = "done"
    /\ pc' = "idle"
    /\ op' = "none"
    /\ in_text' = NoneV
    /\ in_context' = ""
    /\ in_max' = 0
    /\ out_threats' = <<>>
    /\ out_allowed' = TRUE
    /\ out_text' = Str(<<>>)
    /\ out_text2' = Str(<<>>)
    /\ in_call_data' = EmptyDict
    /\ validation' = NoValidation
    /\ http_request' = NoRequest
    /\ http_response' = NoResponse
    /\ log_result' = NoLogResult
    /\ crm_requests' = <<>>
    /\ clients' = <<>>
    /\ discord_tasks' = <<>>
    /\ UNCHANGED <<detector, server, frames>>

DetectorNext == IsSafeInput \/ SanitizeInput \/ SanitizeAgain \/ ValidateCallData \/ Return

\* the detector does not read the configuration of the server
DetectorInit == Init /\ server = NewServer(NoneV)

DetectorSpec == DetectorInit /\ [][DetectorNext]_vars

\* the scans alone: calls of is_safe_input, with its analyze_input
ScanNext == IsSafeInput \/ Return

ScanSpec == DetectorInit /\ [][ScanNext]_vars

TypeOK == pc \in {"idle", "done"}

----------------------------------------------------------------------------
(* Requests to the secure server *)

Phone == Str(<<"(", "5", "5", "5", ")", " ", "1", "2", "3", "-", "4", "5", "6", "7">>)
BlockedText == Str(<<"s", "q", "l">>)

\* arguments of log_call: the caller name missing, good, too short once
\* sanitized, or blocked; the phone missing, good, bad, or not a string;
\* the duration missing, good, negative, and for a good call also zero,
\* under a minute, the maximum, above it, and a string
LogCallArguments ==
    {Dict([caller_name |-> n, caller_phone |-> p, transcript |-> t, call_summary |-> s,
           call_duration |-> d] @@ other) :
        n \in {Absent, Str(<<"A", "l">>), Str(<<"(", "A", ")">>), BlockedText},
        p \in {Absent, Phone, Str(<<"1", "2", "3", "4", "5">>), IntV(5)},
        t \in FieldValues,
        s \in {Absent, Str(<<"o", "k">>), BlockedText},
        d \in {Absent, IntV(65), IntV(-1)},
        other \in {[source |-> Absent, stage |-> Absent, site_county |-> Absent],
                   [source |-> Str(<<"G", "o", "o", "g", "l", "e">>), stage |-> Str(<<"D", "N", "C">>),
                    site_county |-> Str(<<"A", "d", "a">>)]}}
    \cup {[caller_name |-> Str(<<"A", "l">>), caller_phone |-> Phone, call_duration |-> d] :
            d \in {IntV(0), IntV(59), IntV(7200), IntV(7201), Str(<<"6", "5">>)}}

\* JSON-RPC requests that do not call log_call: the methods, a tool that
\* does not exist, a request without method, one without id, and params
\* that are null
OtherJsonRpc ==
    {[method |-> m, id |-> 1] :
        m \in {"initialize", "tools/list", "notifications/initialized", "resources/list"}}
    \cup {[method |-> "initialize", id |-> 1, params |-> [protocolVersion |-> "2025-03-26"]],
          [method |-> "tools/call", id |-> 2,
           params |-> [name |-> "delete_person", arguments |-> [id |-> IntV(1)]]],
          [id |-> 4], [method |-> "tools/list"],
          [method |-> "initialize", id |-> 5, params |-> NoneV],
          [method |-> "tools/call", id |-> 6, params |-> NoneV]}

LogCall(arguments) ==
    [method |-> "tools/call", id |-> 3, params |-> [name |-> "log_call", arguments |-> arguments]]

JsonRpcRequests == OtherJsonRpc \cup {LogCall(a) : a \in LogCallArguments}

GoodAuthorization == <<"Bearer", "<MCP_AUTH_TOKEN>">>

\* the Authorization header: missing, good, a wrong token, another scheme
Authorizations ==
    {<<>>, GoodAuthorization, <<"Bearer", "guess">>, <<"Basic", "<MCP_AUTH_TOKEN>">>}

GoodLogCall ==
    LogCall([caller_name |-> Str(<<"A", "l">>), caller_phone |-> Phone])

MessagesRequests ==
    {HttpRequest(TRUE, b, GoodAuthorization, <<>>) : b \in JsonRpcRequests}
    \cup {HttpRequest(TRUE, b, a, <<>>) : b \in OtherJsonRpc \cup {GoodLogCall}, a \in Authorizations}
    \cup {HttpRequest(FALSE, NoneV, a, <<>>) : a \in Authorizations}

McpRequests ==
    {HttpRequest(TRUE, b, <<>>, <<>>) : b \in JsonRpcRequests}
    \cup {HttpRequest(TRUE, GoodLogCall, a, <<>>) : a \in Authorizations}
    \cup {HttpRequest(FALSE, NoneV, <<>>, <<>>)}

Entry(role, message, time) ==
    [role |-> Str(role), message |-> Str(message), time_in_call_secs |-> IntV(time)]

\* transcripts: empty; a conversation in which the user says a phone
\* number; one in which the user says what the filter blocks
Transcripts ==
    {<<>>,
     <<Entry(<<"a", "g", "e", "n", "t">>, <<"H", "i">>, 0), Entry(<<"u", "s", "e", "r">>, <<"c", "a", "l", "l", " ", "5", "5", "5", "-", "1", "2", "3", "-", "4", "5", "6", "7", " ", "o", "k">>, 12)>>,
     <<Entry(<<"u", "s", "e", "r">>, <<"s", "q", "l">>, 3)>>}

\* the data of a post-call webhook
WebhookData ==
    {[transcript |-> t,
          metadata |-> Dict([call_duration_secs |-> d, cost |-> IntV(12)]),
          analysis |-> Dict([transcript_summary |-> s, call_successful |-> o,
                             data_collection_results |-> NoneV]),
          conversation_initiation_client_data |->
               [dynamic_variables |-> Dict([user_name |-> n, user_phone |-> p,
                                            system__agent_id |-> Text("<agent id>")])],
          conversation_id |-> Text("<conversation id>")] :
        t \in Transcripts,
        d \in {Absent, IntV(65)},
        s \in {Absent, NoneV, BlockedText},
        o \in {Absent, Str(<<"s", "u", "c", "c", "e", "s", "s">>)},
        n \in {Absent, Str(<<"A", "l", " ", " ", "B", "o", " ", "C", "y">>), BlockedText, IntV(7)},
        p \in {Absent, Phone}}

PostCall(data) == [type |-> "post_call_transcription", data |-> data]

WebhookBodies ==
    {PostCall(d) : d \in WebhookData}
    \cup {[type |-> "post_call_audio"], [type |-> "post_call_transcription"],
          [data |-> [conversation_id |-> Text("<conversation id>")]]}

GoodPostCall ==
    PostCall([transcript |-> <<Entry(<<"u", "s", "e", "r">>, <<"s", "q", "l">>, 3)>>,
             conversation_initiation_client_data |->
                  [dynamic_variables |-> [user_name |-> Str(<<"A", "l">>), user_phone |-> Phone]]])

\* the elevenlabs-signature header of a request with the body: missing,
\* made with the secret, made without it, or not of the form t=..,v0=..
Signatures(body) ==
    {<<>>,
     <<<<"t=", "1700000000">>, <<"v0=", Hmac(Text("<WEBHOOK_SECRET>"), <<"1700000000", body>>)>>>>,
     <<<<"t=", "1700000000">>, <<"v0=", Hmac(Text("guess"), <<"1700000000", body>>)>>>>,
     <<<<"t=", "1700000000">>, <<"v1=", Hmac(Text("<WEBHOOK_SECRET>"), <<"1700000000", body>>)>>>>,
     <<<<"t=", "1700000000">>>>}

WebhookRequests ==
    {HttpRequest(TRUE, b, <<>>, <<>>) : b \in WebhookBodies}
    \cup UNION {{HttpRequest(TRUE, b, <<>>, sig) : sig \in Signatures(b)} :
                  b \in {GoodPostCall, [type |-> "post_call_audio"]}}
    \cup {HttpRequest(FALSE, NoneV, <<>>, <<>>)}

----------------------------------------------------------------------------
(* The requests the secure server handles *)

\* the server has handled the request to the endpoint with the result
Handled(endpoint, req, crm, result) ==
    /\ http_request' = [endpoint |-> endpoint, request |-> req, crm |-> crm]
    /\ http_response' = result.response
    /\ log_result' = result.log
    /\ crm_requests' = result.log.requests
    /\ clients' = result.log.clients
    /\ discord_tasks' = result.log.tasks
    /\ pc' = "done"
    /\ op' = endpoint
    /\ UNCHANGED <<detector, server, frames>>
    /\ UNCHANGED detector_vars

\* POST /messages/{session_id}
MessagesEndpoint ==
    /\ pc = "idle"
    /\ \E req \in MessagesRequests, crm \in CrmAnswers :
          \E result \in {messages_endpoint(server, detector, req, crm)} :
              Handled("/messages/{session_id}", req, crm, result)

\* POST /mcp
McpEndpoint ==
    /\ pc = "idle"
    /\ \E req \in McpRequests, crm \in CrmAnswers :
          \E result \in {mcp_endpoint(server, detector, req, crm)} :
              Handled("/mcp", req, crm, result)

\* POST /webhook/elevenlabs
ElevenLabsWebhook ==
    /\ pc = "idle"
    /\ \E req \in WebhookRequests, crm \in CrmAnswers :
          \E result \in {handle_elevenlabs_webhook(server, req, crm)} :
              Handled("/webhook/elevenlabs", req, crm, result)

\* the event loop runs the notification that _log_call_secure scheduled
\* with asyncio.create_task; nobody awaits the task, the response of the
\* request has been returned
DiscordNotification ==
    /\ pc = "done"
    /\ discord_tasks # <<>>
    /\ \E discord \in DiscordAnswers :
          \E logged \in {send_discord_notification(server, Head(discord_tasks), discord)} :
              /\ logged # ""
              /\ discord_tasks' = Tail(discord_tasks)
              /\ op' = "send_discord_notification"
    /\ UNCHANGED <<detector, server, frames, pc, http_request, http_response, log_result,
                   crm_requests, clients>>
    /\ UNCHANGED detector_vars

Next == MessagesEndpoint \/ McpEndpoint \/ ElevenLabsWebhook \/ DiscordNotification \/ Return

Spec == Init /\ [][Next]_vars

----------------------------------------------------------------------------
(* Several callers of the detector at once *)

\* the arguments of the concurrent calls: a text with high- and
\* medium-risk findings that the sanitizer changes, and a mapping that is
\* accepted and one that is rejected at its second field
ConcurrentTexts == {Str(<<" ", "s", "q", "l", "(", "(", "!", "!", "!">>)}

ConcurrentCallData ==
    {[caller_name |-> Str(<<" ", "(", "T", "E", "S", "T", ")", " ", "!", "!", "!">>),
      caller_phone |-> Str(<<"s", "q", "l">>)],
     [caller_name |-> Str(<<"A", "l">>), transcript |-> Str(<<"s", "q", "l">>),
      call_summary |-> Str(<<"s", "q", "l">>)]}

\* the caller enters a call of is_safe_input, sanitize_input or
\* validate_call_data with a frame of its own
Call(c) ==
    /\ frames[c].pc = "idle"
    /\ \E frame \in
            {Frame("is_safe_input", text, "transcript", 0, EmptyDict) :
                text \in ConcurrentTexts}
            \cup {Frame("sanitize_input", text, "", MaxLength, EmptyDict) :
                     text \in ConcurrentTexts}
            \cup {Frame("validate_call_data", NoneV, "", 0, call_data) :
                     call_data \in ConcurrentCallData} :
          frames' = [frames EXCEPT ![c] = frame]
    /\ UNCHANGED <<detector, pc, op, server>>
    /\ UNCHANGED detector_vars
    /\ UNCHANGED server_vars

\* the caller executes the next statement of its call, which leaves the
\* detector and the frame
Step(c) ==
    /\ frames[c].pc \notin {"idle", "done"}
    /\ \E after \in
            {CASE frames[c].op = "is_safe_input" -> is_safe_input_step(detector, frames[c])
               [] frames[c].op = "sanitize_input" -> sanitize_input_step(detector, frames[c])
               [] frames[c].op = "validate_call_data" ->
                     validate_call_data_step(detector, frames[c])} :
          /\ detector' = after.self
          /\ frames' = [frames EXCEPT ![c] = after.frame]
    /\ UNCHANGED <<pc, op, server>>
    /\ UNCHANGED detector_vars
    /\ UNCHANGED server_vars

\* the call returns to the caller
ReturnTo(c) ==
    /\ frames[c].pc = "done"
    /\ frames' = [frames EXCEPT ![c] = NoFrame]
    /\ UNCHANGED <<detector, pc, op, server>>
    /\ UNCHANGED detector_vars
    /\ UNCHANGED server_vars

ConcurrentNext == \E c \in Callers : Call(c) \/ Step(c) \/ ReturnTo(c)

ConcurrentSpec == DetectorInit /\ [][ConcurrentNext]_vars

----------------------------------------------------------------------------
(* Properties of the detector *)

HasSeverity(threats, severity) == \E n \in 1..Len(threats) : threats[n].severity = severity

AllPatterns ==
    detector.high_risk_patterns \o detector.medium_risk_patterns \o detector.low_risk_patterns

\* no rule of any catalog matches anywhere in the text
NoCatalogMatch(text) ==
    IsStr(text) =>
        \A n \in 1..Len(AllPatterns) : \A i \in 1..(Len(text.s) + 1) :
            Ends(AllPatterns[n], text.s, i) = <<>>

\* C1: is_safe_input returns allowed = false exactly when the findings that
\* analyze_input returns for the text contain a finding of severity high;
\* medium and low findings alone never block, and a text that no rule of
\* the catalogs matches is allowed with an empty list of findings.
C1_BlockedIffHighFinding ==
    (pc = "done" /\ op = "is_safe_input") =>
        /\ out_threats = analyze_input(detector, in_text, in_context)
        /\ out_allowed = ~HasSeverity(out_threats, "high")
        /\ NoCatalogMatch(in_text) => (out_allowed /\ out_threats = <<>>)

C1_Witness ==
    /\ pc = "done" /\ op = "is_safe_input"
    /\ ~out_allowed
    /\ HasSeverity(out_threats, "high")
    /\ HasSeverity(out_threats, "medium")

\* C6: sanitize_input is idempotent: sanitizing its result again with the
\* same max_length returns the result unchanged.
C6_SanitizeIdempotent ==
    (pc = "done" /\ op = "sanitize_again") => out_text2 = out_text

\* C7: the result of sanitize_input is at most max_length long and holds no
\* control character of the stripped ranges and none of < > { } ( ) [ ] and
\* the backtick.
C7_SanitizedIsCleanAndShort ==
    (pc = "done" /\ op = "sanitize_input") =>
        /\ IsStr(out_text)
        /\ Len(out_text.s) <= in_max
        /\ \A i \in 1..Len(out_text.s) :
              out_text.s[i] \notin
                  {"x00", "x07", "x08", "x0b", "x0c", "x0e", "x1b", "x1c", "x1d", "x1e", "x1f",
                   "x7f", "x85", "x9f", "<", ">", "{", "}", "(", ")", "[", "]", "x60"}

C7_Witness ==
    /\ pc = "done" /\ op = "sanitize_input"
    /\ IsStr(in_text)
    /\ \E i \in 1..Len(in_text.s) : in_text.s[i] = "x07"
    /\ \E i \in 1..Len(in_text.s) : in_text.s[i] = "("
    /\ in_max > 0
    /\ Len(in_text.s) > in_max
    /\ Len(out_text.s) = in_max

----------------------------------------------------------------------------
(* Properties of validate_call_data *)

Validated == pc = "done" /\ op = "validate_call_data"

\* the admission decision on the field of the input, taken on its own
Blocked(field) ==
    ~is_safe_input(detector, Get(in_call_data, field, Str(<<>>)), field)[1]

\* the position of the first blocked text field, 5 if there is none
FirstBlocked ==
    IF Blocked("caller_name") THEN 1
    ELSE IF Blocked("transcript") THEN 2
    ELSE IF Blocked("call_summary") THEN 3
    ELSE IF Blocked("call_outcome") THEN 4
    ELSE 5

\* the detector calls of a validation that stops at field number k
RECURSIVE CallsUpTo(_, _)
CallsUpTo(n, k) ==
    IF n > 4 \/ n > k THEN <<>>
    ELSE IF n = k THEN <<DetectorCall("is_safe_input", TextFields[n])>>
    ELSE <<DetectorCall("is_safe_input", TextFields[n]),
           DetectorCall("sanitize_input", TextFields[n])>> \o CallsUpTo(n + 1, k)

\* C2: validate_call_data examines caller_name, transcript, call_summary,
\* call_outcome in this order and stops at the first blocked field: when
\* field number k is the first blocked one, exactly the first k fields are
\* scanned, the first k - 1 are sanitized, and no later field is scanned or
\* sanitized.
C2_StopsAtFirstBlockedField ==
    Validated => validation.calls = CallsUpTo(1, FirstBlocked)

C2_Witness ==
    /\ Validated
    /\ ~Blocked("caller_name")
    /\ Blocked("transcript")
    /\ Blocked("call_summary")
    /\ Len(validation.calls) = 3

SixKeys ==
    {"caller_name", "transcript", "call_summary", "call_outcome", "caller_phone", "call_duration"}

\* C3: validate_call_data returns ok = false with an empty record, or
\* ok = true with a record whose keys are exactly the six keys; never a
\* partially filled record.
C3_EmptyOrCompleteRecord ==
    Validated =>
        \/ ~validation.ok /\ DOMAIN validation.data = {}
        \/ validation.ok /\ DOMAIN validation.data = SixKeys

C3_Witness ==
    /\ Validated
    /\ ~validation.ok
    /\ Len(validation.calls) > 1
    /\ "source" \in DOMAIN in_call_data
    /\ DOMAIN validation.data = {}

FieldLimit ==
    [caller_name |-> 100, transcript |-> 5000, call_summary |-> 500, call_outcome |-> 50]

\* C8: in an accepted record each text field is sanitize_input of the input
\* field with the limit of that field (100, 5000, 500, 50), so it is never
\* longer than the limit, and a field missing from the input is "".
C8_FieldsSanitizedWithOwnLimit ==
    (Validated /\ validation.ok) =>
        \A n \in 1..4 :
            LET f == TextFields[n]
            IN  /\ validation.data[f] = sanitize_input(Get(in_call_data, f, Str(<<>>)), FieldLimit[f])
                /\ Len(validation.data[f].s) <= FieldLimit[f]
                /\ f \notin DOMAIN in_call_data => validation.data[f] = Str(<<>>)

C8_Witness ==
    /\ Validated /\ validation.ok
    /\ "transcript" \in DOMAIN in_call_data
    /\ IsStr(in_call_data["transcript"])
    /\ Len(in_call_data["transcript"].s) > 5000
    /\ Len(validation.data["transcript"].s) = 5000
    /\ validation.data["caller_name"] = Str(<<>>)

\* C9: in an accepted record caller_phone and call_duration are the input
\* values unchanged ("" and 0 when missing); they are never given to the
\* scanner or the sanitizer, and the verdict does not depend on them: a
\* record is rejected exactly when one of the four text fields is blocked.
C9_PhoneAndDurationCopied ==
    Validated =>
        /\ validation.ok =>
              /\ validation.data["caller_phone"] = Get(in_call_data, "caller_phone", Str(<<>>))
              /\ validation.data["call_duration"] = Get(in_call_data, "call_duration", IntV(0))
        /\ \A n \in 1..Len(validation.calls) :
              validation.calls[n].field \notin {"caller_phone", "call_duration"}
        /\ validation.ok = (FirstBlocked = 5)

C9_Witness ==
    /\ Validated /\ validation.ok
    /\ "caller_phone" \in DOMAIN in_call_data
    /\ ~is_safe_input(detector, in_call_data["caller_phone"], "caller_phone")[1]
    /\ validation.data["caller_phone"] = in_call_data["caller_phone"]
    /\ validation.data["call_duration"] = in_call_data["call_duration"]

FieldMessage ==
    <<"Caller name contains suspicious content",
      "Transcript contains potential prompt injection",
      "Call summary contains suspicious content",
      "Call outcome contains suspicious content">>

\* C10: a rejection carries the message of the first blocked field in the
\* order caller_name, transcript, call_summary, call_outcome, and the four
\* fields have four distinct messages.
C10_MessageNamesFirstBlockedField ==
    /\ \A m, n \in 1..4 : m # n => FieldMessage[m] # FieldMessage[n]
    /\ (Validated /\ ~validation.ok) =>
          /\ FirstBlocked \in 1..4
          /\ validation.msg = FieldMessage[FirstBlocked]

C10_Witness ==
    /\ Validated /\ ~validation.ok
    /\ ~Blocked("caller_name")
    /\ Blocked("transcript")
    /\ Blocked("call_outcome")
    /\ validation.msg = "Transcript contains potential prompt injection"

----------------------------------------------------------------------------
(* Claims about the secure server *)

\* the free text of a request to the CRM: the name of the person and the
\* outcome, summary and transcript lines of the note
FreeTexts(crm_request) ==
    LET person == crm_request.json.person.d
        note == crm_request.json.note
    IN  {person[k] : k \in DOMAIN person \cap {"name", "firstName", "lastName"}}
        \cup {note.parts[n].args[1] :
                n \in {n \in 1..Len(note.parts) :
                         note.parts[n].template \in
                             {"Outcome: {}", "Summary: {}", "Transcript:\n{}"}}}

\* C4: every free-text field (caller name, transcript, summary, outcome) of
\* a create_event request that the secure server sends to the CRM has first
\* passed the prompt-injection filter: validate_call_data returned ok for
\* the call and the text sent is a field of the data it returned, on every
\* path that stores call data (tools/call log_call and /webhook/elevenlabs).
C4_StoredTextPassedFilter ==
    \A n \in 1..Len(crm_requests) :
        /\ log_result.validated.ok
        /\ FreeTexts(crm_requests[n]) \subseteq
               {log_result.validated.data[f] : f \in DOMAIN SourceLimits}

\* the request handled last was a tools/call of log_call that reached
\* _log_call_secure
LogCallReached ==
    /\ pc = "done"
    /\ http_request.endpoint \in {"/mcp", "/messages/{session_id}"}
    /\ http_request.request.json_ok
    /\ http_response.status = 200
    /\ Get(http_request.request.body, "method", "") = "tools/call"
    /\ Get(Get(http_request.request.body, "params", EmptyDict), "name", "") = "log_call"

\* the texts _log_call_secure returns when it rejects a call
RejectionTexts ==
    {"Security validation failed: {}", "Invalid caller name", "Invalid phone number format"}

AllChecks == <<"validate_call_data", "caller_name", "validate_phone">>

\* C5: when _log_call_secure rejects the call (validate_call_data returns
\* ok = false, or the sanitized caller name has fewer than 2 characters, or
\* validate_phone returns false for the phone) it returns an error text,
\* creates no FollowUpBossClient and sends nothing to the CRM; a client is
\* created and a create_event request sent only after the three checks have
\* passed, in that order.
C5_RejectedCallContactsNoCrm ==
    LogCallReached =>
        LET v == validate_call_data(detector, http_request.request.body.params.arguments)
            name_ok == v.ok /\ Len(v.data.caller_name.s) >= 2
            phone_ok == name_ok /\ validate_phone(v.data.caller_phone) = "True"
            rejected == ~v.ok \/ ~name_ok \/ validate_phone(v.data.caller_phone) = "False"
        IN  /\ rejected =>
                /\ log_result.outcome = "return"
                /\ log_result.text.template \in RejectionTexts
                /\ clients = <<>>
                /\ crm_requests = <<>>
            /\ clients # <<>> \/ crm_requests # <<>> =>
                /\ phone_ok
                /\ log_result.checks = AllChecks
            /\ \E n \in 0..Len(AllChecks) : log_result.checks = SubSeq(AllChecks, 1, n)

\* a call with a good name and a bad phone was rejected after the three checks
C5_Witness ==
    /\ LogCallReached
    /\ log_result.validated.ok
    /\ log_result.checks = AllChecks
    /\ log_result.text.template = "Invalid phone number format"
    /\ clients = <<>>
    /\ crm_requests = <<>>

----------------------------------------------------------------------------
(* Properties of the detector: values that are no text, the order of the
   findings, the steps of the sanitizer, letter case and the context *)

\* the value is None, not a string, or the empty string
NoText(v) == ~IsStr(v) \/ v.s = <<>>

TextFieldSet == {TextFields[n] : n \in 1..Len(TextFields)}

\* the mapping with every text field that is missing or holds no text set
\* to the empty string
WithEmptyStrings(call_data) ==
    [k \in DOMAIN call_data \cup TextFieldSet |->
        IF k \in TextFieldSet /\ NoText(Get(call_data, k, Str(<<>>)))
        THEN Str(<<>>) ELSE call_data[k]]

ReturnMessages ==
    {FieldMessage[n] : n \in 1..4} \cup {"Input validated successfully"}

\* C11: a text that is missing, empty, None or not a string is treated as
\* the empty string: the scan returns no findings and allows it, the
\* sanitizer returns "", and validate_call_data returns (it does not
\* raise) what it returns for the mapping with "" in the place of the
\* field, which is "" in an accepted record.
C11_NoTextIsEmptyString ==
    /\ (pc = "done" /\ op = "is_safe_input" /\ NoText(in_text)) =>
          (out_allowed /\ out_threats = <<>>)
    /\ (pc = "done" /\ op = "sanitize_input" /\ NoText(in_text)) =>
          out_text = Str(<<>>)
    /\ Validated =>
          /\ validation.msg \in ReturnMessages
          /\ validation = validate_call_data(detector, WithEmptyStrings(in_call_data))
          /\ \A f \in TextFieldSet :
                NoText(Get(in_call_data, f, Str(<<>>))) =>
                    /\ validation.msg # SourceMessages[f]
                    /\ validation.ok => validation.data[f] = Str(<<>>)

C11_Witness ==
    /\ Validated /\ validation.ok
    /\ "caller_name" \in DOMAIN in_call_data /\ in_call_data["caller_name"] = NoneV
    /\ "transcript" \in DOMAIN in_call_data /\ in_call_data["transcript"] = IntV(7)
    /\ "call_summary" \notin DOMAIN in_call_data
    /\ validation.data["transcript"] = Str(<<>>)

Scanned == pc = "done" /\ op = "is_safe_input"

\* the severity and the category of the findings of rule number n of the
\* three catalogs taken one after the other
RuleSeverity(n) ==
    IF n <= Len(detector.high_risk_patterns) THEN "high"
    ELSE IF n <= Len(detector.high_risk_patterns) + Len(detector.medium_risk_patterns)
    THEN "medium" ELSE "low"

Category ==
    [high |-> "prompt_injection", medium |-> "suspicious_content",
     low |-> "potentially_suspicious"]

\* for every rule in catalog order, the texts of its matches in match order
MatchesOfAllRules(s) ==
    Concat([n \in 1..Len(AllPatterns) |->
               LET matches == finditer(AllPatterns[n], s)
               IN  [k \in 1..Len(matches) |->
                       <<RuleSeverity(n), Category[RuleSeverity(n)], group(s, matches[k])>>]])

SeverityRank == [high |-> 1, medium |-> 2, low |-> 3]

\* C12: the scan has no early exit: the findings are, for every rule of
\* the high, then the medium, then the low catalog, one finding per match
\* of the rule in match order, whatever the earlier rules found; so all
\* high findings precede all medium findings, which precede all low ones.
C12_EveryRuleEveryMatchInOrder ==
    (Scanned /\ ~NoText(in_text)) =>
        /\ \E matches \in {MatchesOfAllRules(in_text.s)} :
              /\ Len(out_threats) = Len(matches)
              /\ \A n \in 1..Len(out_threats) :
                    <<out_threats[n].severity, out_threats[n].threat_type,
                      out_threats[n].matched_text>> = matches[n]
        /\ \A m, n \in 1..Len(out_threats) :
              m < n => SeverityRank[out_threats[m].severity] <= SeverityRank[out_threats[n].severity]

\* a scan with findings of all three severities, two of them from one rule
C12_Witness ==
    /\ Scanned
    /\ HasSeverity(out_threats, "high")
    /\ HasSeverity(out_threats, "medium")
    /\ \E m, n \in 1..Len(out_threats) :
          /\ m < n
          /\ out_threats[m].severity = "low" /\ out_threats[n].severity = "low"
          /\ out_threats[m].matched_text = out_threats[n].matched_text

Sanitized == pc = "done" /\ op = "sanitize_input"

\* every run of whitespace replaced by one blank
CollapseWhitespace(s) ==
    LET first == SelectSeq([i \in 1..Len(s) |-> i],
                           LAMBDA i : s[i] \notin Whitespace \/ i = 1 \/ s[i - 1] \notin Whitespace)
    IN  [k \in 1..Len(first) |-> IF s[first[k]] \in Whitespace THEN " " ELSE s[first[k]]]

\* s without the characters of the set
Without(s, cs) == SelectSeq(s, LAMBDA c : c \notin cs)

\* the length of the longest run of characters of the set around position i
RunAround(s, cs, i) ==
    Cardinality({j \in 1..Len(s) : \A k \in Min(i, j)..Max(i, j) : s[k] \in cs})

\* s without its runs of three or more characters of the set
WithoutRuns(s, cs) ==
    LET kept == SelectSeq([i \in 1..Len(s) |-> i], LAMBDA i : RunAround(s, cs, i) < 3)
    IN  [k \in 1..Len(kept) |-> s[kept[k]]]

\* the first n characters of s
Truncated(s, n) == [i \in 1..Min(n, Len(s)) |-> s[i]]

\* s from its first to its last character that is no whitespace
Stripped(s) ==
    LET text == {i \in 1..Len(s) : s[i] \notin Whitespace}
    IN  IF text = {} THEN <<>>
        ELSE SubSeq(s, CHOOSE i \in text : \A j \in text : i <= j,
                       CHOOSE i \in text : \A j \in text : i >= j)

\* the four removals, in their order
Removals(s) ==
    WithoutRuns(Without(Without(CollapseWhitespace(s), ControlChars), BracketChars), PunctChars)

\* C13: the result of sanitize_input is the composition of six steps in
\* this order: whitespace runs collapsed to one blank, control characters
\* removed, brackets and the backtick removed, runs of three or more of
\* ! @ # $ % ^ & * deleted, the text cut to max_length, and leading and
\* trailing whitespace stripped.
C13_SanitizeIsSixStepsInOrder ==
    (Sanitized /\ ~NoText(in_text)) =>
        \E steps \in {Stripped(Truncated(Removals(in_text.s), in_max))} :
            /\ Len(out_text.s) = Len(steps)
            /\ \A i \in 1..Len(out_text.s) : out_text.s[i] = steps[i]

\* a text for which the place of the cut matters: cutting first, or
\* stripping before the cut, would give another result
C13_Witness ==
    /\ Sanitized /\ ~NoText(in_text)
    /\ in_max > 0 /\ Len(in_text.s) > in_max
    /\ out_text.s # Stripped(Removals(Truncated(in_text.s, in_max)))
    /\ out_text.s # Truncated(Stripped(Removals(in_text.s)), in_max)
    /\ out_text.s # <<>>

\* the text with its ASCII letters in upper case, in lower case
UpperCased(text) == Str([i \in 1..Len(text.s) |-> ToUpper(text.s[i])])
LowerCased(text) == Str([i \in 1..Len(text.s) |-> ToLower(text.s[i])])

Recased(text) == {UpperCased(text), LowerCased(text)}

\* the number of findings of the severity
Count(threats, severity) ==
    Cardinality({n \in 1..Len(threats) : threats[n].severity = severity})

\* the rule of the medium catalog that has no flag (?i) and names
\* letters: [A-Z]{5,}, "excessive capitals"
ExcessiveCapitals == detector.medium_risk_patterns[7]

\* the number of findings of the severity that do not come from the rule
\* for excessive capitals
CountBesidesCapitals(text, threats, severity) ==
    IF severity = "medium"
    THEN Count(threats, severity) - Len(finditer(ExcessiveCapitals, text.s))
    ELSE Count(threats, severity)

\* C14, as claimed: every rule of every catalog matches without regard to
\* case: the scan of a text and the scan of the text in upper case or in
\* lower case return the same number of findings at each severity.
C14_CaseInsensitiveEveryRule ==
    (Scanned /\ ~NoText(in_text)) =>
        \A variant \in Recased(in_text) \ {in_text} :
            \E threats \in {analyze_input(detector, variant, in_context)} :
                \A severity \in {"high", "medium", "low"} :
                    Count(threats, severity) = Count(out_threats, severity)

\* C14, amended: every rule but the rule for excessive capitals matches
\* without regard to the case of the ASCII letters: the scan of a text and
\* the scan of the text with its ASCII letters in upper or in lower case
\* return the same number of high findings, of low findings, and of
\* medium findings that do not come from the rule [A-Z]{5,}.
C14_CaseInsensitiveButCapitals ==
    (Scanned /\ ~NoText(in_text)) =>
        \A variant \in Recased(in_text) \ {in_text} :
            \E threats \in {analyze_input(detector, variant, in_context)} :
                \A severity \in {"high", "medium", "low"} :
                    CountBesidesCapitals(variant, threats, severity)
                        = CountBesidesCapitals(in_text, out_threats, severity)

\* a text in mixed case with findings of every severity, the medium one
\* from the rule for excessive capitals, which its lower case lacks
C14_Witness ==
    /\ Scanned /\ ~NoText(in_text)
    /\ in_text \notin Recased(in_text)
    /\ HasSeverity(out_threats, "high")
    /\ HasSeverity(out_threats, "low")
    /\ Len(finditer(ExcessiveCapitals, in_text.s)) > 0
    /\ Len(finditer(ExcessiveCapitals, LowerCased(in_text).s)) = 0

\* a finding without its description
Undescribed(threat) == <<threat.severity, threat.threat_type, threat.matched_text>>

\* C15: the context label does not influence the decision: with any other
\* label is_safe_input returns the same verdict and findings of the same
\* severities, categories and matched texts in the same order; only the
\* descriptions, which end with the label, differ.
C15_ContextOnlyInDescription ==
    Scanned =>
        \A context \in Contexts \ {in_context} :
            \E other \in {is_safe_input(detector, in_text, context)} :
                /\ other[1] = out_allowed
                /\ Len(other[2]) = Len(out_threats)
                /\ \A n \in 1..Len(out_threats) :
                        /\ Undescribed(other[2][n]) = Undescribed(out_threats[n])
                        /\ other[2][n].description[1] = out_threats[n].description[1]
                        /\ other[2][n].description[2] = context
                        /\ out_threats[n].description[2] = in_context

C15_Witness ==
    /\ Scanned
    /\ in_context = "transcript"
    /\ ~out_allowed
    /\ HasSeverity(out_threats, "low")
    /\ out_threats # is_safe_input(detector, in_text, "")[2]

----------------------------------------------------------------------------
(* Properties of concurrent detector calls *)

\* C16: the result of a scan, a sanitization or a validation depends on
\* the arguments of the call only: however the statements of the callers
\* interleave, and whatever calls came before, the findings that
\* analyze_input returns, the verdict of is_safe_input, the text that
\* sanitize_input returns and the result of validate_call_data are those
\* of the call run alone on the detector as constructed.
C16_ResultOfCallRunAlone ==
    \A c \in Callers :
        LET frame == frames[c]
        IN  /\ (frame.op = "is_safe_input" /\ frame.pc \in {"verdict", "done"}) =>
                  frame.threats = analyze_input(NewDetector, frame.text, frame.context)
            /\ (frame.op = "is_safe_input" /\ frame.pc = "done") =>
                  <<frame.allowed, frame.threats>>
                      = is_safe_input(NewDetector, frame.text, frame.context)
            /\ (frame.op = "sanitize_input" /\ frame.pc = "done") =>
                  Str(frame.sanitized) = sanitize_input(frame.text, frame.max_length)
            /\ (frame.op = "validate_call_data" /\ frame.pc = "done") =>
                  frame.validated = validate_call_data(NewDetector, frame.call_data)

\* a scan has returned its findings while the validation of another
\* caller is between its second and its third field
C16_Witness ==
    \E c, d \in Callers :
        /\ frames[c].op = "is_safe_input" /\ frames[c].pc = "verdict"
        /\ frames[c].threats # <<>>
        /\ frames[d].op = "validate_call_data" /\ frames[d].pc = "scan" /\ frames[d].n = 3

\* C17: the three catalogs are those the constructor set, after any
\* calls of is_safe_input (with its analyze_input), sanitize_input and
\* validate_call_data, accepted or rejected, finished or in progress.
C17_CatalogsUnchanged ==
    /\ DOMAIN detector = {"high_risk_patterns", "medium_risk_patterns", "low_risk_patterns"}
    /\ detector.high_risk_patterns = high_risk_patterns_0
    /\ detector.medium_risk_patterns = medium_risk_patterns_0
    /\ detector.low_risk_patterns = low_risk_patterns_0

\* a rejected validation and a blocking scan have returned
C17_Witness ==
    \E c, d \in Callers :
        /\ frames[c].op = "validate_call_data" /\ frames[c].pc = "done"
        /\ ~frames[c].validated.ok
        /\ frames[d].op = "is_safe_input" /\ frames[d].pc = "done" /\ ~frames[d].allowed
----------------------------------------------------------------------------
(* Claims about what a log_call reaches the CRM with, and about the
   signature of the webhook *)

\* the arguments of the tools/call of log_call handled last
LogCallArgs == http_request.request.body.params.arguments

\* an argument the caller provided, or the default when it is not provided
Provided(key) == key \in DOMAIN LogCallArgs /\ LogCallArgs[key] # Absent
Argument(key, default) == IF Provided(key) THEN LogCallArgs[key] ELSE default

\* the person of the create_event request that the log_call sent
SentPerson == crm_requests[1].json.person.d

\* C18: for a log_call tool call that passes validation, the agent written
\* to the CRM person (assignedTo) is determined by the source and stage
\* arguments supplied in the call: a stage that has a mapping takes
\* priority, otherwise a source that has a mapping is used, otherwise the
\* default agent.
C18_AgentFromSourceAndStage ==
    LogCallReached /\ crm_requests # <<>> =>
        SentPerson.assignedTo =
            StrStrip(get_assigned_agent(server, Argument("source", Str(<<>>)),
                                        Argument("stage", Qualify)).name)

\* the custom fields of the person data and the arguments they come from
CustomFields ==
    [site_county |-> "Site County", site_state |-> "Site State",
     reference_number |-> "Reference Number", acreage |-> "Acreage"]

\* C19: for a log_call tool call that passes validation, each optional
\* argument the caller provides reaches the CRM event: a non-empty
\* site_county, site_state, reference_number or acreage is a custom field
\* of the person data, and source and stage are the supplied values rather
\* than the defaults "ElevenLabs AI Call" and "Qualify".
C19_OptionalArgumentsReachEvent ==
    LogCallReached /\ crm_requests # <<>> =>
        /\ \A key \in DOMAIN CustomFields :
              Provided(key) /\ Truthy(LogCallArgs[key]) =>
                  /\ CustomFields[key] \in DOMAIN SentPerson
                  /\ SentPerson[CustomFields[key]] = StrStrip(LogCallArgs[key])
        /\ Provided("source") /\ Truthy(LogCallArgs.source) =>
              SentPerson.source = StrStrip(LogCallArgs.source)
        /\ Provided("stage") => SentPerson.stage = StrStrip(LogCallArgs.stage)

\* the request handled last was a post_call_transcription webhook to a
\* server with a webhook secret
WebhookWithSecret ==
    /\ pc = "done"
    /\ http_request.endpoint = "/webhook/elevenlabs"
    /\ http_request.request.json_ok
    /\ Get(http_request.request.body, "type", "") = "post_call_transcription"
    /\ Truthy(server.webhook_secret)

\* C20: when a webhook secret is configured, a post_call_transcription
\* webhook leads to a create_event request only if the request carries a
\* signature header that verifies against the secret; a request with a
\* missing, malformed or wrong signature is answered with 401 and creates
\* no event.
C20_EventOnlyWithVerifiedSignature ==
    WebhookWithSecret =>
        /\ crm_requests # <<>> => SignatureVerified(server, http_request.request)
        /\ ~SignatureVerified(server, http_request.request) =>
              /\ http_response.status = 401
              /\ crm_requests = <<>>
----------------------------------------------------------------------------
(* Claims about the endpoints of the secure server *)

\* the request handled last was a tools/call sent to the endpoint
ToolsCallTo(endpoint) ==
    /\ pc = "done"
    /\ http_request.endpoint = endpoint
    /\ http_request.request.json_ok
    /\ Get(http_request.request.body, "method", "") = "tools/call"

\* handle_jsonrpc has answered the request: the endpoint returned its
\* response with status 200
Dispatched == http_response.status = 200

\* C21: a tools/call request is dispatched to handle_jsonrpc (and so can
\* reach _log_call_secure and the CRM) only if the HTTP request carried a
\* Bearer token equal to the configured MCP_AUTH_TOKEN, on /messages and
\* on /mcp.
C21_ToolsCallNeedsToken ==
    \A endpoint \in {"/messages/{session_id}", "/mcp"} :
        (ToolsCallTo(endpoint) /\ (Dispatched \/ crm_requests # <<>>)) =>
            Authenticated(server, http_request.request.authorization)

\* C22: a tools/call request to /messages/{session_id} with no
\* Authorization header, a header that is not Bearer or a wrong token is
\* answered with status 401 and no other error status.
C22_Unauthenticated401 ==
    (/\ ToolsCallTo("/messages/{session_id}")
     /\ ~Authenticated(server, http_request.request.authorization)) =>
        http_response.status = 401

\* the request handled last was handed to handle_jsonrpc: its body was a
\* JSON mapping and the endpoint did not refuse it
JsonRpcHandled ==
    /\ pc = "done"
    /\ http_request.endpoint \in {"/messages/{session_id}", "/mcp"}
    /\ http_request.request.json_ok
    /\ \/ http_request.endpoint = "/mcp"
       \/ Get(http_request.request.body, "method", "") # "tools/call"
       \/ Authenticated(server, http_request.request.authorization)

KnownMethods == {"initialize", "tools/list", "notifications/initialized", "tools/call"}

\* handling the request raised an exception: params that are no mapping,
\* a tool that does not exist, or an exception out of _log_call_secure
RaisedWhileHandling ==
    LET body == http_request.request.body
        params == Get(body, "params", EmptyDict)
    IN  \/ /\ Get(body, "method", "") \in {"initialize", "tools/call"}
           /\ "t" \in DOMAIN params
        \/ /\ Get(body, "method", "") = "tools/call"
           /\ "t" \notin DOMAIN params
           /\ Get(params, "name", "") # "log_call"
        \/ log_result.outcome = "raise"

\* C23: for every JSON-RPC request mapping handle_jsonrpc returns (it never
\* raises to its caller) one response with jsonrpc "2.0" and the id of the
\* request, None when it has none, and exactly one of result and error:
\* error -32601 for a method it does not know, error -32603 for any
\* exception raised while handling, a result otherwise.
C23_OneJsonRpcResponse ==
    JsonRpcHandled =>
        /\ http_response.status = 200
        /\ \E response \in {http_response.body} :
              /\ \/ DOMAIN response = {"jsonrpc", "id", "result"}
                 \/ DOMAIN response = {"jsonrpc", "id", "error"}
              /\ response.jsonrpc = "2.0"
              /\ response.id = Get(http_request.request.body, "id", NoneV)
              /\ Get(http_request.request.body, "method", "") \notin KnownMethods =>
                    "error" \in DOMAIN response /\ response.error.code = -32601
              /\ (/\ Get(http_request.request.body, "method", "") \in KnownMethods
                  /\ RaisedWhileHandling) =>
                    "error" \in DOMAIN response /\ response.error.code = -32603
              /\ (/\ Get(http_request.request.body, "method", "") \in KnownMethods
                  /\ ~RaisedWhileHandling) =>
                    "result" \in DOMAIN response

\* a log_call whose phone number is no string: validate_phone raised, the
\* response is the error -32603 with the id of the request
C23_Witness ==
    /\ JsonRpcHandled
    /\ log_result.outcome = "raise"
    /\ http_response.status = 200
    /\ "error" \in DOMAIN http_response.body
    /\ http_response.body.error.code = -32603
    /\ http_response.body.id = 3

\* C24: every FollowUpBossClient that a request handler creates is closed
\* when the handler has finished, whether the request to the CRM succeeded
\* or failed, so no client stays open after any sequence of requests.
C24_ClientsClosed ==
    pc = "done" => \A n \in 1..Len(clients) : clients[n] = "closed"

LoggedText == "Call logged successfully (Event ID: {})"

\* C25: a Discord notification is scheduled only after create_event has
\* returned successfully, never for a rejected or failed call, and the
\* text that log_call returns does not depend on the notification: the
\* success text has been returned while the notification is still
\* scheduled, and running the notification, whatever its POST does,
\* changes neither the response nor what was sent to the CRM.
C25_NotificationAfterEventOnly ==
    /\ [](discord_tasks # <<>> =>
             /\ LogCallReached
             /\ http_request.crm = "created"
             /\ Len(crm_requests) = 1
             /\ log_result.outcome = "return"
             /\ log_result.text.template = LoggedText
             /\ http_response.body.result.content[1].text = log_result.text
             /\ Len(discord_tasks) = 1)
    /\ [][discord_tasks # <<>> /\ discord_tasks' # discord_tasks /\ pc' = "done" =>
             /\ http_response' = http_response
             /\ crm_requests' = crm_requests
             /\ log_result' = log_result]_vars

\* the notification of a logged call has run; the response is the success
\* text
C25_Witness ==
    /\ LogCallReached
    /\ op = "send_discord_notification"
    /\ discord_tasks = <<>>
    /\ log_result.tasks # <<>>
    /\ log_result.text.template = LoggedText
    /\ http_response.body.result.content[1].text = log_result.text

\* the duration that _log_call_secure uses for the call_duration supplied
UsedDuration ==
    LET supplied == Get(LogCallArgs, "call_duration", IntV(0))
    IN  IF IsInt(supplied) /\ supplied.i >= 0 /\ supplied.i <= 7200 THEN supplied.i ELSE 0

\* the Duration lines of the note sent to the CRM
DurationLines ==
    SelectSeq(crm_requests[1].json.note.parts,
              LAMBDA part : part.template = "Duration: {}m {}s")

\* C26: the call duration used for the note is an integer in 0..7200: a
\* supplied call_duration that is no integer, is negative or exceeds 7200
\* is replaced by 0; a duration of 0 gives no Duration line, any other
\* duration d one line with m minutes and s seconds, 0 <= s < 60 and
\* 60*m + s = d.
C26_DurationInRangeAndSplit ==
    (LogCallReached /\ crm_requests # <<>>) =>
        /\ UsedDuration \in 0..7200
        /\ UsedDuration = 0 => DurationLines = <<>>
        /\ UsedDuration # 0 =>
              /\ Len(DurationLines) = 1
              /\ \E m \in 0..120, s \in 0..59 :
                    /\ DurationLines[1].args = <<IntV(m), IntV(s)>>
                    /\ 60 * m + s = UsedDuration

\* a call of 7200 seconds was logged with a Duration line of 120m 0s
C26_Witness ==
    /\ LogCallReached /\ crm_requests # <<>>
    /\ Get(LogCallArgs, "call_duration", IntV(0)) = IntV(7200)
    /\ DurationLines = <<Format("Duration: {}m {}s", <<IntV(120), IntV(0)>>)>>
====
